---- MODULE Spec2Model ----
(***************************************************************************)
(* Model of the Kalshi ingestion pipeline:                                 *)
(*   backend/ingestion_engine/auto_ingest.py  (supervisor, polling loop)   *)
(*   backend/ingestion_engine/kalshi_http.py  (token bucket, retrying GET) *)
(*   backend/common/db.py                     (batched upsert sink)        *)
(*                                                                         *)
(* The specifications share the variables:                                 *)
(*   SpecSupervisor  start_ingestion / stop_ingestion and the tasks they   *)
(*                   spawn, interleaved at the await points;               *)
(*   Spec            one polling task, from spawn to termination;          *)
(*   FairSpec,       the same with the event loop's fairness, and with     *)
(*   FairIngest      every await completing;                               *)
(*   SpecPaging      the polling task against listings whose cursors cycle *)
(*                   or end after empty pages;                             *)
(*   SpecRetry       calls of _request_with_retry for any max_retries;     *)
(*   SpecBucket      one TokenBucket shared by concurrent acquire calls;   *)
(*   SpecWait        acquire calls with the durations of their sleeps;     *)
(*   SpecSink        batch_upsert_* calls with any batch of raw records;   *)
(*   SpecE2E         the polling task against a fixed two-page listing.    *)
(***************************************************************************)
EXTENDS Integers, Sequences, FiniteSets, TLC

(***************************************************************************)
(* Bounds of the model.                                                    *)
(***************************************************************************)
\* tasks that start_ingestion may spawn in one behaviour of SpecSupervisor
MaxTasks == 3
\* concurrent callers of stop_ingestion
MaxStoppers == 2
\* largest max_retries passed to _request_with_retry in SpecRetry
MaxRetriesArg == 3
\* largest base_backoff (seconds) passed to _request_with_retry in SpecRetry
MaxBaseBackoff == 2
\* largest batch_size the polling task of Spec is started with
MaxBatchSize == 3
\* coroutines calling acquire on one bucket in SpecBucket
MaxAcquirers == 2
\* largest n of an acquire(n) call in SpecBucket
MaxAcquireN == 2
\* tokens that SpecBucket lets the acquire calls obtain in one behaviour
MaxGranted == 3
\* times the wall clock is set back in one behaviour of SpecBucket
MaxClockBack == 1
\* coroutines calling acquire on the bucket of SpecWait
MaxWaiters == 1
\* largest capacity (tokens) of the bucket of SpecWait
MaxWaitCapacity == 1
\* acquire calls made in one behaviour of SpecWait
MaxWaitCalls == 3
\* times the wall clock jumps forward in one behaviour of SpecWait
MaxClockJumps == 1
\* latest time the clock of the database reaches
MaxDbTime == 2
\* pages that the API serves for one resource in one cycle
MaxPages == 4

(***************************************************************************)
(* Program constants.                                                      *)
(***************************************************************************)
\* auto_ingest.py:25
DEFAULT_BATCH_SIZE == 500
\* auto_ingest.py:120, default poll_interval of start_ingestion
DEFAULT_POLL_INTERVAL == 60
\* auto_ingest.py:22, _INGEST_TASK = None
NoTask == 0
\* kalshi_http.py:90-91, defaults of _request_with_retry
DEFAULT_MAX_RETRIES == 3
DEFAULT_BASE_BACKOFF == 1
\* kalshi_http.py:57, the longest sleep of acquire: 0.1 s, in ms
SLEEP_CAP_MS == 100

VARIABLES
    \* ---- supervisor (auto_ingest.py module state and its callers) ----
    INGEST_TASK,    \* the module global _INGEST_TASK: NoTask or a task id
    nTasks,         \* number of tasks created so far by asyncio.create_task
    tpc,            \* task id -> position of the polling coroutine
    tcancel,        \* task id -> a cancellation was requested and not yet delivered
    targs,          \* task id -> arguments the coroutine was created with
    envMinCreatedTs,\* os.getenv("INGEST_MIN_CREATED_TS")
    spc,            \* stop_ingestion caller -> "idle" | "awaiting"
    swait,          \* stop_ingestion caller -> the task it awaits
    lastOp          \* the supervisor call made by the last step and the task
                    \* it acted on ("task": a step of a polling coroutine)

supVars == <<INGEST_TASK, nTasks, tpc, tcancel, targs, envMinCreatedTs, spc, swait, lastOp>>

VARIABLES
    \* ---- KalshiHttpClient (kalshi_http.py) ----
    bucket,         \* the client's TokenBucket: capacity, tokens, time since last_refill
    req,            \* the _request_with_retry call in progress, or its result
    outcomes,       \* outcomes of the HTTP attempts of that call, in order
    sleeps          \* durations of the backoff sleeps of that call, in order

reqVars == <<bucket, req, outcomes, sleeps>>

VARIABLES
    \* ---- the polling coroutine (auto_ingest.py:28-116) and the sink (db.py) ----
    listing,        \* what the API serves: resource -> sequence of pages
    loc,            \* locals of _poll_markets_and_events, and what its last step did
    txn,            \* the transaction of the batch_upsert_* call in progress
    store,          \* committed rows: resource -> set of identity keys
    sleepFor,       \* seconds of the asyncio.sleep in progress at lines 111/116 (0: none)
    deliveredAt,    \* history: where CancelledError was thrown into the coroutine
    exitCause,      \* history: why the coroutine ended
    cut             \* history: the transaction that a cancellation interrupted

loopVars == <<listing, loc, txn, store, sleepFor, deliveredAt, exitCause, cut>>

VARIABLES
    \* ---- coroutines that call TokenBucket.acquire on the shared bucket ----
    acq,            \* caller -> [pc, n]: where its acquire(n) call stands
    granted,        \* history: half tokens deducted by all acquire calls
    refilled,       \* history: half tokens added by all _refill calls
    nback,          \* history: times time.time() was set back
    \* ---- the same, with the durations of the sleeps of line 57 (SpecWait) ----
    tbucket,        \* a TokenBucket: capacity, tokens, time since last_refill
    waiters         \* caller -> its acquire(n) call and the sleep it is in

bktVars == <<acq, granted, refilled, nback, tbucket, waiters>>

VARIABLES
    \* ---- the database behind db.py and the API payloads ----
    rowData,        \* committed rows: resource -> (identity key -> columns)
    txnDelta,       \* rows written by the open transaction: key -> values
    txnTime,        \* now() of the open transaction: its start time
    dbNow,          \* the clock of the database server
    conns,          \* pool connections held by batch_upsert_* calls
    poolCreated,    \* the module global _pool is not None
    changed,        \* market keys whose title the API now serves changed
    call            \* a batch_upsert_* call made directly: its records and result

sinkVars == <<rowData, txnDelta, txnTime, dbNow, conns, poolCreated, changed, call>>

vars == <<supVars, reqVars, loopVars, bktVars, sinkVars>>

Tasks == 1..MaxTasks
Stoppers == 1..MaxStoppers

NoArgs == [poll_interval |-> 0, min_created_ts |-> "None", batch_size |-> 0]

\* the arguments callers pass to start_ingestion (selected_markets is ignored)
StartArgs ==
    { [poll_interval |-> DEFAULT_POLL_INTERVAL, min_created_ts |-> "None",
       batch_size |-> DEFAULT_BATCH_SIZE],
      [poll_interval |-> 30, min_created_ts |-> "t1", batch_size |-> 2] }

(***************************************************************************)
(* asyncio.Task                                                            *)
(***************************************************************************)
\* Task.done()
TaskDone(t) == tpc[t] = "done"

\* a task whose coroutine has not finished
Alive(t) == tpc[t] \notin {"none", "done"}

\* Task.cancel(): requests cancellation unless the task is done
TaskCancel(t) ==
    tcancel' = [tcancel EXCEPT ![t] = IF TaskDone(t) THEN @ ELSE TRUE]

(***************************************************************************)
(* start_ingestion (auto_ingest.py:119-150).  The coroutine has no await,  *)
(* so one call is one atomic step.                                         *)
(***************************************************************************)
\* line 136: if _INGEST_TASK and not _INGEST_TASK.done(): return
StartGuard_noDoneCheck == INGEST_TASK # NoTask

StartGuard == INGEST_TASK # NoTask /\ ~TaskDone(INGEST_TASK)

\* lines 140-141: min_created_ts defaults to the environment variable
EffectiveMinCreatedTs(a) ==
    IF a.min_created_ts = "None" THEN envMinCreatedTs ELSE a.min_created_ts

StartIngestion(a) ==
    /\ IF StartGuard
       THEN /\ lastOp' = [op |-> "start_noop", task |-> INGEST_TASK]
            /\ UNCHANGED <<INGEST_TASK, nTasks, tpc, tcancel, targs>>
       ELSE /\ nTasks < MaxTasks
            /\ nTasks' = nTasks + 1
            /\ INGEST_TASK' = nTasks'
            /\ tpc' = [tpc EXCEPT ![nTasks'] = "created"]
            /\ targs' = [targs EXCEPT ![nTasks'] =
                            [a EXCEPT !.min_created_ts = EffectiveMinCreatedTs(a)]]
            /\ lastOp' = [op |-> "start_spawn", task |-> nTasks']
            /\ UNCHANGED tcancel
    /\ UNCHANGED <<envMinCreatedTs, spc, swait>>
    /\ UNCHANGED <<reqVars, loopVars, bktVars, sinkVars>>

(***************************************************************************)
(* stop_ingestion (auto_ingest.py:153-162).  One await point: line 159.    *)
(***************************************************************************)
\* lines 156-159 up to the suspension; awaiting a finished task does not suspend
StopCall_noAwait(s) ==
    /\ spc[s] = "idle"
    /\ IF INGEST_TASK = NoTask
       THEN /\ lastOp' = [op |-> "stop_noop", task |-> NoTask]
            /\ UNCHANGED <<INGEST_TASK, tcancel, spc, swait>>
       ELSE /\ TaskCancel(INGEST_TASK)
            /\ INGEST_TASK' = NoTask
            /\ lastOp' = [op |-> "stop_immediate", task |-> INGEST_TASK]
            /\ UNCHANGED <<spc, swait>>
    /\ UNCHANGED <<nTasks, tpc, targs, envMinCreatedTs>>
    /\ UNCHANGED <<reqVars, loopVars, bktVars, sinkVars>>

StopCall(s) ==
    /\ spc[s] = "idle"
    /\ IF INGEST_TASK = NoTask
       THEN /\ lastOp' = [op |-> "stop_noop", task |-> NoTask]
            /\ UNCHANGED <<INGEST_TASK, tcancel, spc, swait>>
       ELSE /\ TaskCancel(INGEST_TASK)
            /\ IF TaskDone(INGEST_TASK)
               THEN /\ INGEST_TASK' = NoTask
                    /\ lastOp' = [op |-> "stop_immediate", task |-> INGEST_TASK]
                    /\ UNCHANGED <<spc, swait>>
               ELSE /\ spc' = [spc EXCEPT ![s] = "awaiting"]
                    /\ swait' = [swait EXCEPT ![s] = INGEST_TASK]
                    /\ lastOp' = [op |-> "stop_suspend", task |-> INGEST_TASK]
                    /\ UNCHANGED INGEST_TASK
    /\ UNCHANGED <<nTasks, tpc, targs, envMinCreatedTs>>
    /\ UNCHANGED <<reqVars, loopVars, bktVars, sinkVars>>

\* lines 159-162 after the awaited task finished (its result or CancelledError)
StopResume(s) ==
    /\ spc[s] = "awaiting"
    /\ TaskDone(swait[s])
    /\ INGEST_TASK' = NoTask
    /\ spc' = [spc EXCEPT ![s] = "idle"]
    /\ swait' = [swait EXCEPT ![s] = NoTask]
    /\ lastOp' = [op |-> "stop_resumed", task |-> swait[s]]
    /\ UNCHANGED <<nTasks, tpc, tcancel, targs, envMinCreatedTs>>
    /\ UNCHANGED <<reqVars, loopVars, bktVars, sinkVars>>

(***************************************************************************)
(* The polling coroutine seen from the supervisor: its positions between   *)
(* await points (auto_ingest.py:28-116).                                   *)
(*   created        scheduled by create_task, not yet run                  *)
(*   create_tables  line 42                                                *)
(*   cycle          an await inside the try block, lines 57-107            *)
(*   sleep          line 111                                               *)
(*   fail_sleep     line 116                                               *)
(*   unwinding      CancelledError travelling through the sink's           *)
(*                  async-with blocks (rollback, release)                  *)
(*   done           the coroutine returned or was cancelled                *)
(***************************************************************************)
TaskFrame(t, to) ==
    /\ tpc' = [tpc EXCEPT ![t] = to]
    /\ lastOp' = [op |-> "task", task |-> NoTask]
    /\ UNCHANGED <<INGEST_TASK, nTasks, targs, envMinCreatedTs, spc, swait>>
    /\ UNCHANGED <<reqVars, loopVars, bktVars, sinkVars>>

\* lines 40-42: the client is built and create_tables awaited
TaskBegin(t) ==
    /\ tpc[t] = "created" /\ ~tcancel[t]
    /\ TaskFrame(t, "create_tables") /\ UNCHANGED tcancel

\* line 42 returns
CreateTablesOk(t) ==
    /\ tpc[t] = "create_tables" /\ ~tcancel[t]
    /\ TaskFrame(t, "cycle") /\ UNCHANGED tcancel

\* lines 43-45: create_tables raised; logged, return
CreateTablesFail(t) ==
    /\ tpc[t] = "create_tables" /\ ~tcancel[t]
    /\ TaskFrame(t, "done") /\ UNCHANGED tcancel

\* lines 48-111: the cycle reached its sleep
CycleOk(t) ==
    /\ tpc[t] = "cycle" /\ ~tcancel[t]
    /\ TaskFrame(t, "sleep") /\ UNCHANGED tcancel

\* lines 114-116: an exception inside the cycle
CycleFail(t) ==
    /\ tpc[t] = "cycle" /\ ~tcancel[t]
    /\ TaskFrame(t, "fail_sleep") /\ UNCHANGED tcancel

\* line 111 or line 116 returns: next iteration of while True
SleepDone(t) ==
    /\ tpc[t] \in {"sleep", "fail_sleep"} /\ ~tcancel[t]
    /\ TaskFrame(t, "cycle") /\ UNCHANGED tcancel

\* CancelledError is thrown into the coroutine at its await point.
\* lines 112-113 catch it inside the try block; elsewhere it ends the task.
DeliverCancel(t) ==
    /\ Alive(t) /\ tcancel[t]
    /\ tcancel' = [tcancel EXCEPT ![t] = FALSE]
    /\ \E to \in IF tpc[t] = "cycle" THEN {"unwinding", "done"} ELSE {"done"} :
          TaskFrame(t, to)

\* the sink's async-with blocks finished unwinding; line 113 break
UnwindDone(t) ==
    /\ tpc[t] = "unwinding" /\ ~tcancel[t]
    /\ TaskFrame(t, "done") /\ UNCHANGED tcancel

(***************************************************************************)
(* TokenBucket (kalshi_http.py:29-57).                                     *)
(* Time is read in units of 30 s and tokens are counted in half tokens, so *)
(* that the refill rate capacity/60 per second is `capacity` half tokens   *)
(* per unit.  `elapsed` is time.time() - last_refill; it saturates at the  *)
(* time in which an empty bucket fills, after which _refill gives the same *)
(* result.                                                                 *)
(***************************************************************************)
\* half tokens in one token
TokenUnit == 2
\* time units (30 s) in which an empty bucket fills: capacity / (capacity/60) s
FillUnits == 2

Min(a, b) == IF a <= b THEN a ELSE b

\* INGEST_RATE_LIMIT_PER_MINUTE values (kalshi_http.py:26)
RateLimits == {1, 2}

\* KalshiHttpClient.__init__, lines 72-76, and TokenBucket.__init__
NewBucket(rpm) ==
    [capacity |-> rpm * TokenUnit, rate |-> rpm, tokens |-> rpm * TokenUnit, elapsed |-> 0]

\* TokenBucket._refill, lines 38-46
Refill(b) ==
    [b EXCEPT !.tokens = Min(b.capacity, b.tokens + b.elapsed * b.rate),
              !.elapsed = 0]

\* lines 52-53: enough tokens after the refill
CanTake_always(b, n) == TRUE

CanTake(b, n) == b.tokens >= n * TokenUnit

Take(b, n) == [b EXCEPT !.tokens = @ - n * TokenUnit]

\* the clock advances by one unit
Tick ==
    /\ bucket.elapsed < FillUnits
    /\ bucket' = [bucket EXCEPT !.elapsed = @ + 1]
    /\ UNCHANGED <<req, outcomes, sleeps>>
    /\ UNCHANGED <<supVars, loopVars, bktVars, sinkVars>>

\* time.time() is the wall clock: it can be set back between two readings
ClockBack ==
    /\ nback < MaxClockBack
    /\ nback' = nback + 1
    /\ bucket' = [bucket EXCEPT !.elapsed = @ - 1]
    /\ UNCHANGED <<req, outcomes, sleeps, acq, granted, refilled, tbucket, waiters>>
    /\ UNCHANGED <<supVars, loopVars, sinkVars>>

(***************************************************************************)
(* TokenBucket.acquire(n) called by several coroutines (lines 48-57).      *)
(*   acq[a].pc: idle | waiting (line 57) | returned | zero_division (the   *)
(*              division of line 56 with refill_rate_per_second = 0)       *)
(*   acq[a].calls is history: the acquire calls coroutine a has made       *)
(***************************************************************************)
Acquirers == 1..MaxAcquirers

NoAcquire == [pc |-> "idle", n |-> 0, calls |-> 0]

Max(a, b) == IF a >= b THEN a ELSE b

\* lines 50-57: one pass of the while loop; there is no await between the
\* refill of line 51 and the deduction of line 53
AcquirePass(a, n, calls) ==
    LET b == Refill(bucket) IN
    /\ refilled' = refilled + Max(0, b.tokens - bucket.tokens)
    /\ IF CanTake(b, n)
       THEN /\ bucket' = Take(b, n)
            /\ acq' = [acq EXCEPT ![a] = [pc |-> "returned", n |-> n, calls |-> calls]]
            /\ granted' = granted + n * TokenUnit
       ELSE /\ bucket' = b
            /\ acq' = [acq EXCEPT ![a] = [pc |-> IF b.rate = 0 THEN "zero_division"
                                                 ELSE "waiting",
                                           n |-> n, calls |-> calls]]
            /\ granted' = granted
    /\ UNCHANGED <<req, outcomes, sleeps, nback, tbucket, waiters>>
    /\ UNCHANGED <<supVars, loopVars, sinkVars>>

\* a coroutine calls acquire(n)
AcquireCall(a, n) ==
    /\ acq[a].pc \in {"idle", "returned"}
    /\ granted + n * TokenUnit <= MaxGranted * TokenUnit
    /\ AcquirePass(a, n, acq[a].calls + 1)

\* line 57 returns: the while loop of acquire runs again
AcquireRetry(a) ==
    /\ acq[a].pc = "waiting"
    /\ AcquirePass(a, acq[a].n, acq[a].calls)

(***************************************************************************)
(* TokenBucket.acquire with the durations of its sleeps (lines 48-57).     *)
(* For a refill rate of r tokens per second, time is counted in ticks of   *)
(* TickMs(r) ms and tokens in units of which one accrues per tick, so      *)
(* that `elapsed * refill_rate_per_second` is `elapsed` units and          *)
(* `(tokens - self.tokens) / refill_rate_per_second` is the number of      *)
(* missing units, in ticks.                                                *)
(*   waiters[a].pc:    idle | sleeping (line 57) | returned                *)
(*   waiters[a].sleep: ticks left of the asyncio.sleep in progress         *)
(*   h_need, h_slept:  wait_time and the duration passed to asyncio.sleep  *)
(*                     by the last pass; h_passes: passes of the while     *)
(*                     loop in this call; h_late: ticks of the last sleep  *)
(*                     during which the bucket had the tokens of the call  *)
(***************************************************************************)
Waiters == 1..MaxWaiters

\* refill rates, in tokens per second
WaitRates == {5, 10, 20}

TickMs(r) == IF r = 20 THEN 50 ELSE 100

UnitsPerToken(r) == 1000 \div (r * TickMs(r))

\* min(wait_time, 0.1), line 57
SleepCapTicks(r) == SLEEP_CAP_MS \div TickMs(r)

\* TokenBucket.__init__, lines 32-36
NewTimedBucket(c, r) ==
    [rate |-> r, capacity |-> c * UnitsPerToken(r), tokens |-> c * UnitsPerToken(r),
     elapsed |-> 0, h_calls |-> 0, h_jumps |-> 0]

\* TokenBucket._refill, lines 38-46
TimedRefill(b) ==
    [b EXCEPT !.tokens = Min(b.capacity, b.tokens + b.elapsed), !.elapsed = 0]

\* line 56
WaitTime(b, n) == n * UnitsPerToken(b.rate) - b.tokens

\* line 57
SleepTime_uncapped(b, n) == WaitTime(b, n)

SleepTime(b, n) == Min(WaitTime(b, n), SleepCapTicks(b.rate))

NoWaiter == [pc |-> "idle", n |-> 0, sleep |-> 0, h_need |-> 0, h_slept |-> 0,
             h_passes |-> 0, h_late |-> 0]

\* lines 50-57: one pass of the while loop
TimedPass(a, n, passes) ==
    LET b == TimedRefill(tbucket) IN
    IF b.tokens >= n * UnitsPerToken(b.rate)
    THEN /\ tbucket' = [b EXCEPT !.tokens = @ - n * UnitsPerToken(b.rate),
                                 !.h_calls = IF passes = 1 THEN @ + 1 ELSE @]
         /\ waiters' = [waiters EXCEPT ![a] =
                           [@ EXCEPT !.pc = "returned", !.n = n, !.sleep = 0,
                                     !.h_passes = passes,
                                     !.h_late = IF passes = 1 THEN 0 ELSE @]]
    ELSE /\ tbucket' = [b EXCEPT !.h_calls = IF passes = 1 THEN @ + 1 ELSE @]
         /\ waiters' = [waiters EXCEPT ![a] =
                           [pc |-> "sleeping", n |-> n, sleep |-> SleepTime(b, n),
                            h_need |-> WaitTime(b, n), h_slept |-> SleepTime(b, n),
                            h_passes |-> passes, h_late |-> 0]]

WaitFrame ==
    /\ UNCHANGED <<acq, granted, refilled, nback>>
    /\ UNCHANGED <<supVars, reqVars, loopVars, sinkVars>>

\* a coroutine calls acquire(n) with n <= capacity
TimedCall(a, n) ==
    /\ waiters[a].pc \in {"idle", "returned"}
    /\ tbucket.h_calls < MaxWaitCalls
    /\ n * UnitsPerToken(tbucket.rate) <= tbucket.capacity
    /\ TimedPass(a, n, 1)
    /\ WaitFrame

\* the sleep of line 57 is over: the while loop runs again
TimedWake(a) ==
    /\ waiters[a].pc = "sleeping" /\ waiters[a].sleep = 0
    /\ TimedPass(a, waiters[a].n, waiters[a].h_passes + 1)
    /\ WaitFrame

\* the bucket would hand out the tokens of the call of a, were a to look
Accrued(a) ==
    TimedRefill(tbucket).tokens >= waiters[a].n * UnitsPerToken(tbucket.rate)

\* one tick passes on both clocks, unless a sleep is due to end; the time
\* since last_refill is counted up to the time in which the bucket fills
TimedTick ==
    /\ \A a \in Waiters : waiters[a].pc = "sleeping" => waiters[a].sleep > 0
    /\ tbucket' = [tbucket EXCEPT !.elapsed = Min(@ + 1, tbucket.capacity)]
    /\ waiters' = [a \in Waiters |->
                      IF waiters[a].pc = "sleeping"
                      THEN [waiters[a] EXCEPT !.sleep = @ - 1,
                                              !.h_late = IF Accrued(a) THEN @ + 1 ELSE @]
                      ELSE waiters[a]]
    /\ WaitFrame

\* time.time() is the wall clock: it jumps forward, the sleeps do not
ClockForward ==
    /\ tbucket.h_jumps < MaxClockJumps
    /\ tbucket' = [tbucket EXCEPT !.elapsed = Min(@ + 1, tbucket.capacity),
                                  !.h_jumps = @ + 1]
    /\ UNCHANGED waiters
    /\ WaitFrame

(***************************************************************************)
(* KalshiHttpClient._request_with_retry (kalshi_http.py:85-146)            *)
(*   req.state: idle | acquire_wait (line 57) | http (line 113) |          *)
(*              backoff (lines 130, 143) | returned | raised               *)
(***************************************************************************)
\* line 123
TransientStatuses_with500 == {"429", "500", "502", "503", "504"}

TransientStatuses_no503 == {"429", "502", "504"}

TransientStatuses == {"429", "502", "503", "504"}

\* statuses for which raise_for_status raises HTTPStatusError
ErrorStatuses == {"400", "404", "429", "500", "502", "503", "504"}

\* line 135 (asyncio.TimeoutError is handled like httpx.TimeoutException)
NetworkErrors == {"ConnectError", "TimeoutException"}

\* what one HTTP attempt can end with; ReadError stands for the exceptions
\* that neither except clause catches
Outcomes == {"200"} \cup ErrorStatuses \cup NetworkErrors \cup {"ReadError"}

Pow2(n) == IF n = 0 THEN 1 ELSE IF n = 1 THEN 2 ELSE IF n = 2 THEN 4
           ELSE IF n = 3 THEN 8 ELSE IF n = 4 THEN 16 ELSE 32

\* lines 125, 138: backoff = base_backoff * (2 ** attempt)
Backoff(base, attempt) == base * Pow2(attempt)

\* lines 121-146: does the handler of outcome o sleep and continue?
ShouldRetry_alsoLast(o, attempt, max_retries) ==
    /\ o \in TransientStatuses \cup NetworkErrors
    /\ attempt < max_retries

ShouldRetry(o, attempt, max_retries) ==
    IF o \in ErrorStatuses
    THEN o \in TransientStatuses /\ attempt < max_retries - 1
    ELSE o \in NetworkErrors /\ attempt < max_retries - 1

IdleReq == [state |-> "idle", attempt |-> 0, max_retries |-> 0,
            base_backoff |-> 0, result |-> "-"]

\* lines 111-113 after the token was acquired: `for attempt in range(max_retries)`
\* sends the first request, or falls through (returning None) when the range is empty
AfterAcquire(max_retries, base) ==
    IF max_retries >= 1
    THEN [state |-> "http", attempt |-> 0, max_retries |-> max_retries,
          base_backoff |-> base, result |-> "-"]
    ELSE [state |-> "returned", attempt |-> 0, max_retries |-> max_retries,
          base_backoff |-> base, result |-> "None"]

\* TokenBucket.acquire(1), lines 50-57, from the call or from a wake-up
AcquireStep(max_retries, base) ==
    LET b == Refill(bucket) IN
    IF CanTake(b, 1)
    THEN /\ bucket' = Take(b, 1)
         /\ req' = AfterAcquire(max_retries, base)
    ELSE /\ bucket' = b
         /\ req' = [state |-> "acquire_wait", attempt |-> 0,
                    max_retries |-> max_retries, base_backoff |-> base,
                    result |-> "-"]

\* line 109: the call starts
RequestEnter(max_retries, base) ==
    /\ outcomes' = <<>>
    /\ sleeps' = <<>>
    /\ AcquireStep(max_retries, base)

\* line 57 returns: the while loop of acquire runs again
AcquireWake ==
    /\ req.state = "acquire_wait"
    /\ AcquireStep(req.max_retries, req.base_backoff)
    /\ UNCHANGED <<outcomes, sleeps>>
    /\ UNCHANGED <<supVars, loopVars, bktVars, sinkVars>>

\* lines 113-146: the call's state after the attempt in flight ended with outcome o
Respond(r, o) ==
    IF o = "200"
    THEN [r EXCEPT !.state = "returned", !.result = "body"]
    ELSE IF ShouldRetry(o, r.attempt, r.max_retries)
    THEN [r EXCEPT !.state = "backoff"]
    ELSE [r EXCEPT !.state = "raised", !.result = o]

\* lines 125-130, 138-143: the sleeps of the call once outcome o is handled
SleepsAfter(r, o) ==
    IF Respond(r, o).state = "backoff"
    THEN Append(sleeps, Backoff(r.base_backoff, r.attempt))
    ELSE sleeps

HttpRespond(o) ==
    /\ req.state = "http"
    /\ outcomes' = Append(outcomes, o)
    /\ req' = Respond(req, o)
    /\ sleeps' = SleepsAfter(req, o)
    /\ UNCHANGED bucket
    /\ UNCHANGED <<supVars, loopVars, bktVars, sinkVars>>

\* lines 130-131, 143-144: the backoff sleep returns; continue with the next attempt
BackoffDone_reacquire ==
    /\ req.state = "backoff"
    /\ req' = [req EXCEPT !.state = "http", !.attempt = @ + 1]
    /\ bucket' = Take(Refill(bucket), 1)
    /\ UNCHANGED <<outcomes, sleeps>>
    /\ UNCHANGED <<supVars, loopVars, bktVars, sinkVars>>

BackoffDone ==
    /\ req.state = "backoff"
    /\ req' = [req EXCEPT !.state = "http", !.attempt = @ + 1]
    /\ UNCHANGED <<bucket, outcomes, sleeps>>
    /\ UNCHANGED <<supVars, loopVars, bktVars, sinkVars>>

(***************************************************************************)
(* The API's listings.  A page is [records, cursor]: the identity keys of  *)
(* its records (0: a record without ticker / event_ticker) and the cursor  *)
(* it returns (0: null, absent or empty; k: the token that asks for page   *)
(* k).  A request without cursor is answered with page 1.                  *)
(***************************************************************************)
Resources == {"markets", "events"}

Listings ==
    { [markets |-> << [records |-> <<1, 2>>, cursor |-> 2],
                      [records |-> <<3>>, cursor |-> 0] >>,
       events  |-> << [records |-> <<1>>, cursor |-> 0] >>],
      [markets |-> << [records |-> <<1, 0>>, cursor |-> 0] >>,
       events  |-> << [records |-> <<>>, cursor |-> 2],
                      [records |-> <<0>>, cursor |-> 0] >>] }

\* the response to get_markets / get_events called with cursor c
Page(res, c) == listing[res][IF c = 0 THEN 1 ELSE c]

(***************************************************************************)
(* batch_upsert_markets / batch_upsert_events (db.py:349-498, 501-584)     *)
(*   txn.state: none | begin (pool.acquire, BEGIN) | exec (one INSERT ..   *)
(*              ON CONFLICT in flight) | commit | rollback                 *)
(***************************************************************************)
NoTxn == [state |-> "none", res |-> "markets", todo |-> <<>>, written |-> {},
          cause |-> "-"]

NoCut == [at |-> "-", res |-> "markets", keys |-> {}, base |-> {}]

\* db.py:381-386, 520-523: records without identity key are skipped
Upsertable(batch) == SelectSeq(batch, LAMBDA k : k # 0)

SeqKeys(q) == {q[i] : i \in 1..Len(q)}

\* db.py:455-456: the rows visible after a transaction that did not commit
AbortedRows_keepsWritten(rows, written) == rows \cup written

AbortedRows(rows, written) == rows

\* db.py:456, 498: the rows visible after the transaction committed
CommittedRows(rows, written) == rows \cup written

(***************************************************************************)
(* Payloads, columns and rows.  A value is [t, v]: its Python type and its *)
(* text.  A raw record is [key, title, volume, nested]: key is ticker /    *)
(* event_ticker (0: the field is missing or empty); title stands for the   *)
(* columns filled with raw.get(..) (db.py:389-394, 527-538); volume stands *)
(* for the converted columns: BIGINT filled with _as_int(raw.get(..)) in   *)
(* markets, TIMESTAMPTZ filled with _as_datetime(raw.get(..)) in events;   *)
(* nested stands for the JSONB columns (price_ranges, custom_strike,       *)
(* mve_selected_legs; product_metadata, milestones).  The v of a dict or   *)
(* list is its Python repr.                                                *)
(***************************************************************************)
None == [t |-> "none", v |-> ""]
Absent == [t |-> "absent", v |-> ""]
Str(x) == [t |-> "str", v |-> x]
Num(x) == [t |-> "float", v |-> x]
IntVal(x) == [t |-> "int", v |-> x]

\* dict.get(field): None when the payload lacks the field
Get(raw, field) == IF raw[field] = Absent THEN None ELSE raw[field]

\* db.py:47-56: int(v), else int(float(v)), else None
AsInt(x) ==
    IF x = None THEN None
    ELSE IF x.t = "int" THEN x
    ELSE IF x.t = "float"
         THEN IF x.v \in {"inf", "nan"} THEN None
              ELSE IF x.v = "7.9" THEN IntVal("7")
              ELSE IF x.v = "1e30" THEN IntVal("1000000000000000019884624838656")
              ELSE IntVal(x.v)
    ELSE IF x.t = "str"
         THEN IF x.v \in {"7", "7.9"} THEN IntVal("7") ELSE None
    ELSE None

\* db.py:68-92: epoch seconds or an ISO 8601 string, else None
AsDatetime(x) ==
    IF x = None THEN None
    ELSE IF x.t \in {"int", "float"}
         THEN IF x.v \in {"inf", "nan", "1e30"} THEN None
              ELSE [t |-> "datetime", v |-> x.v]
    ELSE IF x.t = "str"
         THEN IF x.v \in {"7", "7.9", "x"} THEN None
              ELSE [t |-> "datetime", v |-> x.v]
    ELSE None

\* db.py:387-449, 525-539: the values bound to the statement for one record
Project(res, raw) ==
    [title |-> Get(raw, "title"),
     volume |-> IF res = "markets" THEN AsInt(Get(raw, "volume"))
                ELSE AsDatetime(Get(raw, "volume")),
     nested |-> Get(raw, "nested")]

\* json.dumps, on the values of the model
JsonDumps(x) ==
    IF x.t = "dict" /\ x.v = "{'a': 1}" THEN "{\"a\": 1}"
    ELSE IF x.t = "list" /\ x.v = "[1, 'x']" THEN "[1, \"x\"]"
    ELSE IF x.t = "bool" /\ x.v = "True" THEN "true"
    ELSE IF x.t = "str" /\ x.v = "{\"a\": 1}" THEN "\"{\\\"a\\\": 1}\""
    ELSE IF x.t = "str" /\ x.v = "[1, \"x\"]" THEN "\"[1, \\\"x\\\"]\""
    ELSE IF x.t = "str" /\ x.v = "true" THEN "\"true\""
    ELSE IF x.t = "str" /\ x.v = "oops" THEN "\"oops\""
    ELSE x.v

\* db.py:34-44 _serialize_jsonb
SerializeJsonb_dumpsAll(x) ==
    IF x = None THEN None ELSE Str(JsonDumps(x))

SerializeJsonb(x) ==
    IF x = None THEN None
    ELSE IF x.t = "str" THEN x
    ELSE Str(JsonDumps(x))

\* db.py:489-495, 575-581: the arguments of the statement: the JSONB
\* columns are serialized, the others are bound as projected
Values(res, raw) ==
    LET rec == Project(res, raw) IN
    [rec EXCEPT !.nested = IF @ # None THEN SerializeJsonb(@) ELSE @]

\* asyncpg binds an argument only if the codec of the column's type takes
\* it: text takes str, int8 takes an int of 64 bits, timestamptz takes a
\* datetime; None is NULL.  The server casts the JSONB arguments from text
\* ($n::jsonb) and refuses a text that is no JSON document
Int64Texts == {"7"}

JsonTexts == {"{\"a\": 1}", "[1, \"x\"]", "true"}

Encodable(vals) ==
    /\ vals.title.t \in {"none", "str"}
    /\ \/ vals.volume = None
       \/ vals.volume.t = "int" /\ vals.volume.v \in Int64Texts
       \/ vals.volume.t = "datetime"
    /\ \/ vals.nested = None
       \/ vals.nested.t = "str" /\ vals.nested.v \in JsonTexts

\* db.py:381-386, 520-523: the records that have their identity field
Identified_all(batch) == batch

Identified(batch) == SelectSeq(batch, LAMBDA raw : raw.key # 0)

NoRows == [k \in {} |-> None]

\* db.py:481-485: INSERT .. ON CONFLICT (key) DO UPDATE SET col = EXCLUDED.col,
\* updated_at = now(); created_at and updated_at default to now() on insert
\* (lines 163-164); now() is the start time of the transaction
UpsertRow_keepsOnNull(rows, k, vals, now) ==
    IF k \in DOMAIN rows
    THEN [title |-> IF vals.title = None THEN rows[k].title ELSE vals.title,
          volume |-> IF vals.volume = None THEN rows[k].volume ELSE vals.volume,
          nested |-> IF vals.nested = None THEN rows[k].nested ELSE vals.nested,
          created_at |-> rows[k].created_at, updated_at |-> now]
    ELSE [title |-> vals.title, volume |-> vals.volume, nested |-> vals.nested,
          created_at |-> now, updated_at |-> now]

UpsertRow_resetsCreated(rows, k, vals, now) ==
    [title |-> vals.title, volume |-> vals.volume, nested |-> vals.nested,
     created_at |-> now, updated_at |-> now]

UpsertRow(rows, k, vals, now) ==
    IF k \in DOMAIN rows
    THEN [title |-> vals.title, volume |-> vals.volume, nested |-> vals.nested,
          created_at |-> rows[k].created_at, updated_at |-> now]
    ELSE [title |-> vals.title, volume |-> vals.volume, nested |-> vals.nested,
          created_at |-> now, updated_at |-> now]

\* the statement for key k ran inside the open transaction
Written_firstWins(delta, k, vals) ==
    [j \in DOMAIN delta \cup {k} |-> IF j \in DOMAIN delta THEN delta[j] ELSE vals]

Written(delta, k, vals) ==
    [j \in DOMAIN delta \cup {k} |-> IF j = k THEN vals ELSE delta[j]]

\* db.py:456: COMMIT makes the writes of the transaction visible
Commit_onlyDelta(rows, delta, now) ==
    [k \in DOMAIN delta |-> UpsertRow(rows, k, delta[k], now)]

Commit(rows, delta, now) ==
    [k \in DOMAIN rows \cup DOMAIN delta |->
        IF k \in DOMAIN delta THEN UpsertRow(rows, k, delta[k], now) ELSE rows[k]]

\* db.py:456: ROLLBACK (an exception left the transaction block) drops them
Rollback_keepsDelta(rows, delta, now) == Commit(rows, delta, now)

Rollback(rows, delta, now) == rows

\* db.py:455: leaving `async with pool.acquire()` gives the connection back
Release_leaks(n) == n

Release(n) == n - 1

(***************************************************************************)
(* _poll_markets_and_events, lines 47-116, between two await points.       *)
(* Each operator maps the locals at one point of the loop body to the      *)
(* locals at the next await: at = "fetch" (lines 57, 88), "flush" (lines   *)
(* 68, 79, 95, 106) or "sleep" (line 111).  The h_ fields are history:     *)
(* what the step did (h_ev), what the current cycle has fetched and        *)
(* committed, whether its pagination has ended, the cursor arguments of    *)
(* its get_markets / get_events calls (h_sent) and how many of them        *)
(* returned a page (h_served), the batches it handed to                    *)
(* the sink (h_flushes), and how and with which cursor the previous cycle  *)
(* ended (h_prev, h_prevCursor), and the rows and the time of the database *)
(* when the current cycle began (h_rows, h_time).                          *)
(***************************************************************************)
Poller == 1

BatchSize == targs[Poller].batch_size

NoLoc == [at |-> "-", phase |-> "markets", cursor |-> 0, resCursor |-> 0,
          batch |-> [r \in Resources |-> <<>>], flushKind |-> "-",
          h_ev |-> {}, h_fetched |-> [r \in Resources |-> <<>>],
          h_ended |-> [r \in Resources |-> FALSE],
          h_committed |-> [r \in Resources |-> {}], h_prev |-> "-",
          h_sent |-> [r \in Resources |-> <<>>],
          h_flushes |-> [r \in Resources |-> <<>>], h_prevCursor |-> 0,
          h_served |-> [r \in Resources |-> 0],
          payload |-> [r \in Resources |-> NoRows],
          h_rows |-> [r \in Resources |-> NoRows], h_time |-> 0,
          client |-> "unbound"]

\* lines 48-57: a new cycle: empty buffers, no cursor, first get_markets
CycleStart_keepsCursor ==
    [NoLoc EXCEPT !.at = "fetch", !.h_ev = {"cycle_start"}, !.client = loc.client,
                  !.cursor = loc.cursor,
                  !.h_prevCursor = loc.cursor,
                  !.h_rows = rowData, !.h_time = dbNow,
                  !.h_prev = IF tpc[Poller] = "fail_sleep" THEN "failed"
                             ELSE IF tpc[Poller] = "sleep" THEN "ok" ELSE "-"]

CycleStart ==
    [NoLoc EXCEPT !.at = "fetch", !.h_ev = {"cycle_start"}, !.client = loc.client,
                  !.h_prevCursor = loc.cursor,
                  !.h_rows = rowData, !.h_time = dbNow,
                  !.h_prev = IF tpc[Poller] = "fail_sleep" THEN "failed"
                             ELSE IF tpc[Poller] = "sleep" THEN "ok" ELSE "-"]

\* lines 82-88 and 109-111: the resource is drained
AfterResource(l) ==
    IF l.phase = "markets"
    THEN [l EXCEPT !.phase = "events", !.cursor = 0, !.at = "fetch"]
    ELSE [l EXCEPT !.at = "sleep", !.h_ev = @ \cup {"sleep_start"}]

\* lines 78-79, 105-106: the final flush; a batch without upsertable record
\* makes batch_upsert_* return 0 without suspending
FinalFlush(l) ==
    LET l1 == [l EXCEPT !.flushKind = "final", !.h_ev = @ \cup {"flush_call"},
                        !.h_flushes[l.phase] = Append(@, l.batch[l.phase])] IN
    IF Upsertable(l.batch[l.phase]) = <<>>
    THEN AfterResource(l1)
    ELSE [l1 EXCEPT !.at = "flush"]

\* lines 73-80, 100-107: cursor = res.get("cursor"); if not cursor: break
AfterPage_keepsCursor(l, c) ==
    IF c # 0 THEN [l EXCEPT !.at = "fetch"]
    ELSE IF l.batch[l.phase] # <<>> THEN FinalFlush(l)
    ELSE AfterResource(l)

AfterPage_noFinalFlush(l, c) ==
    LET l1 == [l EXCEPT !.cursor = c] IN
    IF c # 0 THEN [l1 EXCEPT !.at = "fetch"]
    ELSE AfterResource(l1)

AfterPage(l, c) ==
    LET l1 == [l EXCEPT !.cursor = c] IN
    IF c # 0 THEN [l1 EXCEPT !.at = "fetch"]
    ELSE IF l1.batch[l1.phase] # <<>> THEN FinalFlush(l1)
    ELSE AfterResource(l1)

\* lines 69-70, 96-97: the automatic flush returned; the buffer is cleared
AfterAutoFlush_keepsBuffer(l) ==
    AfterPage(l, l.resCursor)

AfterAutoFlush(l) ==
    AfterPage([l EXCEPT !.batch[l.phase] = <<>>], l.resCursor)

\* lines 67-68, 94-95
AutoFlush(l) ==
    LET l1 == [l EXCEPT !.flushKind = "auto", !.h_ev = @ \cup {"flush_call"},
                        !.h_flushes[l.phase] = Append(@, l.batch[l.phase])] IN
    IF Upsertable(l.batch[l.phase]) = <<>>
    THEN AfterAutoFlush(l1)
    ELSE [l1 EXCEPT !.at = "flush"]

\* the record the API serves under key k of resource res
RawRecord(res, k) ==
    [key |-> k,
     title |-> Str(IF res = "markets" /\ k \in changed THEN "b" ELSE "a"),
     volume |-> Absent, nested |-> Absent]

\* the payloads of the records of a page, by key
Payloads(old, res, records) ==
    [k \in DOMAIN old \cup SeqKeys(records) |->
        IF k \in SeqKeys(records) THEN RawRecord(res, k) ELSE old[k]]

\* lines 62-75, 89-102: a page arrived
OnPage_endsOnEmptyPage(l, page) ==
    LET l1 == [l EXCEPT !.batch[l.phase] = @ \o page.records,
                        !.payload[l.phase] = Payloads(@, l.phase, page.records),
                        !.resCursor = page.cursor,
                        !.h_ev = {},
                        !.h_fetched[l.phase] = @ \o page.records,
                        !.h_served[l.phase] = @ + 1,
                        !.h_ended[l.phase] = (page.cursor = 0)] IN
    IF Len(l1.batch[l.phase]) >= BatchSize
    THEN AutoFlush(l1)
    ELSE AfterPage(l1, IF page.records = <<>> THEN 0 ELSE page.cursor)

OnPage(l, page) ==
    LET l1 == [l EXCEPT !.batch[l.phase] = @ \o page.records,
                        !.payload[l.phase] = Payloads(@, l.phase, page.records),
                        !.resCursor = page.cursor,
                        !.h_ev = {},
                        !.h_fetched[l.phase] = @ \o page.records,
                        !.h_served[l.phase] = @ + 1,
                        !.h_ended[l.phase] = (page.cursor = 0)] IN
    IF Len(l1.batch[l.phase]) >= BatchSize
    THEN AutoFlush(l1)
    ELSE AfterPage(l1, page.cursor)

\* a batch_upsert_* call returned
AfterFlush(l) ==
    IF l.flushKind = "auto" THEN AfterAutoFlush(l) ELSE AfterResource(l)

(***************************************************************************)
(* Steps of the polling task of Spec.                                      *)
(***************************************************************************)
SupFrame ==
    UNCHANGED <<INGEST_TASK, nTasks, targs, envMinCreatedTs, spc, swait, lastOp, bktVars,
                dbNow, changed, call>>

At(pos) == tpc[Poller] = pos /\ ~tcancel[Poller]

\* the coroutine suspends with locals l: at the first await of the request
\* (lines 57/88 -> kalshi_http.py:109), of the sink call (db.py:455: a
\* connection is taken from the pool and the transaction begins), or at the
\* sleep of line 111; held: the connections the sink still holds
Suspend(l, held) ==
    /\ tpc' = [tpc EXCEPT ![Poller] = l.at]
    /\ txnDelta' = NoRows
    /\ txnTime' = IF l.at = "flush" THEN dbNow ELSE 0
    /\ conns' = IF l.at = "flush" THEN held + 1 ELSE held
    /\ IF l.at = "fetch"
       THEN /\ RequestEnter(DEFAULT_MAX_RETRIES, DEFAULT_BASE_BACKOFF)
            /\ txn' = NoTxn
            /\ sleepFor' = 0
            /\ loc' = [l EXCEPT !.h_ev = @ \cup (IF req'.state = "http" THEN {"http"} ELSE {}),
                                !.h_sent[l.phase] = Append(@, l.cursor)]
       ELSE IF l.at = "flush"
       THEN /\ txn' = [state |-> "begin", res |-> l.phase,
                       todo |-> Upsertable(l.batch[l.phase]), written |-> {},
                       cause |-> "-"]
            /\ req' = IdleReq /\ outcomes' = <<>> /\ sleeps' = <<>>
            /\ sleepFor' = 0
            /\ loc' = l
            /\ UNCHANGED bucket
       ELSE /\ txn' = NoTxn
            /\ req' = IdleReq /\ outcomes' = <<>> /\ sleeps' = <<>>
            /\ sleepFor' = targs[Poller].poll_interval
            /\ loc' = l
            /\ UNCHANGED bucket

\* lines 114-116: an exception reached the loop boundary
CycleFail_returns ==
    /\ tpc' = [tpc EXCEPT ![Poller] = "done"]
    /\ loc' = [loc EXCEPT !.at = "done", !.h_ev = {"fail"}]
    /\ exitCause' = "cycle_failure"
    /\ sleepFor' = 0
    /\ txn' = NoTxn
    /\ txnDelta' = NoRows /\ txnTime' = 0
    /\ req' = IdleReq /\ outcomes' = <<>> /\ sleeps' = <<>>

CycleFailed ==
    /\ tpc' = [tpc EXCEPT ![Poller] = "fail_sleep"]
    /\ loc' = [loc EXCEPT !.at = "fail_sleep", !.h_ev = {"fail"}]
    /\ exitCause' = exitCause
    /\ sleepFor' = targs[Poller].poll_interval
    /\ txn' = NoTxn
    /\ txnDelta' = NoRows /\ txnTime' = 0
    /\ req' = IdleReq /\ outcomes' = <<>> /\ sleeps' = <<>>

\* lines 40-42: first step of the task: the client (and its bucket) is built
PollBegin ==
    /\ At("created")
    /\ tpc' = [tpc EXCEPT ![Poller] = "create_tables"]
    /\ loc' = [loc EXCEPT !.at = "create_tables", !.h_ev = {}, !.client = "open"]
    /\ bucket' = NewBucket(bucket.rate)
    /\ UNCHANGED <<tcancel, req, outcomes, sleeps>>
    /\ UNCHANGED <<listing, txn, store, sleepFor, deliveredAt, exitCause, cut>>
    /\ UNCHANGED <<rowData, txnDelta, txnTime, conns, poolCreated>>
    /\ SupFrame

\* line 42 returned (db.py:94-96: get_pool has created the pool): lines 47-57
PollCreateTablesOk ==
    /\ At("create_tables")
    /\ Suspend(CycleStart, conns)
    /\ poolCreated' = TRUE
    /\ UNCHANGED <<tcancel, listing, store, deliveredAt, exitCause, cut, rowData>>
    /\ SupFrame

\* lines 43-45: get_pool or the CREATE TABLE statement raised
PollCreateTablesFail ==
    /\ At("create_tables")
    /\ tpc' = [tpc EXCEPT ![Poller] = "done"]
    /\ loc' = [loc EXCEPT !.at = "done", !.h_ev = {"startup_fail"}]
    /\ exitCause' = "startup_failure"
    /\ poolCreated' \in BOOLEAN
    /\ UNCHANGED <<tcancel, reqVars, listing, txn, store, sleepFor, deliveredAt, cut>>
    /\ UNCHANGED <<rowData, txnDelta, txnTime, conns>>
    /\ SupFrame

\* kalshi_http.py:57 returned inside get_markets / get_events
PollAcquireWake ==
    /\ At("fetch") /\ req.state = "acquire_wait"
    /\ AcquireStep(req.max_retries, req.base_backoff)
    /\ loc' = [loc EXCEPT !.h_ev = IF req'.state = "http" THEN {"http"} ELSE {}]
    /\ UNCHANGED <<tpc, tcancel, outcomes, sleeps>>
    /\ UNCHANGED <<listing, txn, store, sleepFor, deliveredAt, exitCause, cut>>
    /\ UNCHANGED <<rowData, txnDelta, txnTime, conns, poolCreated>>
    /\ SupFrame

\* the HTTP attempt in flight ended with outcome o:
\* the call sleeps (backoff), raises into the loop, or returns the page
PollHttpRespond(o) ==
    /\ At("fetch") /\ req.state = "http"
    /\ o = "200" => loc.h_served[loc.phase] < MaxPages
    /\ LET r == Respond(req, o) IN
       IF r.state = "backoff"
       THEN /\ req' = r
            /\ outcomes' = Append(outcomes, o)
            /\ sleeps' = SleepsAfter(req, o)
            /\ loc' = [loc EXCEPT !.h_ev = {}]
            /\ UNCHANGED <<tpc, bucket, txn, sleepFor, exitCause>>
            /\ UNCHANGED <<txnDelta, txnTime, conns>>
       ELSE IF r.state = "raised"
       THEN CycleFailed /\ UNCHANGED <<bucket, conns>>
       ELSE Suspend(OnPage(loc, Page(loc.phase, loc.cursor)), conns) /\ UNCHANGED exitCause
    /\ UNCHANGED <<tcancel, listing, store, deliveredAt, cut, rowData, poolCreated>>
    /\ SupFrame

\* kalshi_http.py:130/143 returned: the next attempt is sent
PollBackoffDone ==
    /\ At("fetch") /\ req.state = "backoff"
    /\ req' = [req EXCEPT !.state = "http", !.attempt = @ + 1]
    /\ loc' = [loc EXCEPT !.h_ev = {"http"}]
    /\ UNCHANGED <<tpc, tcancel, bucket, outcomes, sleeps>>
    /\ UNCHANGED <<listing, txn, store, sleepFor, deliveredAt, exitCause, cut>>
    /\ UNCHANGED <<rowData, txnDelta, txnTime, conns, poolCreated>>
    /\ SupFrame

\* db.py:455-498: the await in flight inside the transaction returned
PollTxnStep ==
    /\ At("flush") /\ txn.state \in {"begin", "exec", "commit"}
    /\ IF txn.state = "commit"
       THEN /\ store' = [store EXCEPT ![txn.res] = CommittedRows(@, txn.written)]
            /\ rowData' = [rowData EXCEPT ![txn.res] = Commit(@, txnDelta, txnTime)]
            /\ Suspend(AfterFlush([loc EXCEPT !.h_ev = {"committed"},
                                             !.h_committed[txn.res] = @ \cup txn.written]),
                       Release(conns))
       ELSE /\ IF txn.todo = <<>>
               THEN /\ txn' = [txn EXCEPT !.state = "commit"]
                    /\ UNCHANGED txnDelta
               ELSE /\ txn' = [txn EXCEPT !.state = "exec", !.todo = Tail(@),
                                          !.written = @ \cup {Head(txn.todo)}]
                    /\ txnDelta' = Written(txnDelta, Head(txn.todo),
                                           Values(txn.res, loc.payload[txn.res][Head(txn.todo)]))
            /\ loc' = [loc EXCEPT !.h_ev = {}]
            /\ UNCHANGED <<tpc, store, sleepFor, reqVars, rowData, txnTime, conns>>
    /\ UNCHANGED <<tcancel, listing, deliveredAt, exitCause, cut, poolCreated>>
    /\ SupFrame

\* the await in flight inside the transaction raised: __aexit__ rolls back
PollTxnFail ==
    /\ At("flush") /\ txn.state \in {"begin", "exec", "commit"}
    /\ txn' = [txn EXCEPT !.state = "rollback", !.cause = "error"]
    /\ store' = [store EXCEPT ![txn.res] = AbortedRows(@, txn.written)]
    /\ rowData' = [rowData EXCEPT ![txn.res] = Rollback(@, txnDelta, txnTime)]
    /\ txnDelta' = NoRows
    /\ loc' = [loc EXCEPT !.h_ev = {}]
    /\ UNCHANGED <<tpc, tcancel, reqVars, listing, sleepFor, deliveredAt, exitCause, cut>>
    /\ UNCHANGED <<txnTime, conns, poolCreated>>
    /\ SupFrame

\* rollback and release finished: the exception reaches line 114
PollRollbackDone ==
    /\ At("flush") /\ txn.state = "rollback"
    /\ CycleFailed
    /\ conns' = Release(conns)
    /\ UNCHANGED <<tcancel, bucket, listing, store, deliveredAt, cut, rowData, poolCreated>>
    /\ SupFrame

\* line 111 or line 116 returned: while True runs the next cycle
PollSleepDone ==
    /\ At("sleep") \/ At("fail_sleep")
    /\ Suspend(CycleStart, conns)
    /\ UNCHANGED <<tcancel, listing, store, deliveredAt, exitCause, cut, rowData, poolCreated>>
    /\ SupFrame

\* which clause handles a CancelledError thrown at position pos:
\* "break" (lines 112-113, inside the try block), "retry" (lines 114-116) or
\* "propagate" (outside the try block: lines 42 and 116, or before the first
\* step).  CancelledError is no Exception, so line 114 never handles it.
CancelHandler_exceptException(pos) ==
    IF pos \in {"fetch", "flush", "unwinding", "sleep"} THEN "retry" ELSE "propagate"

CancelHandler(pos) ==
    IF pos \in {"fetch", "flush", "unwinding", "sleep"} THEN "break" ELSE "propagate"

\* the await at which the coroutine is suspended
AwaitPoint ==
    IF tpc[Poller] = "fetch" THEN req.state
    ELSE IF tpc[Poller] = "flush" THEN txn.state
    ELSE tpc[Poller]

\* the coroutine leaves the loop after a CancelledError
Cancelled(h) ==
    IF h = "retry"
    THEN CycleFailed
    ELSE /\ tpc' = [tpc EXCEPT ![Poller] = "done"]
         /\ loc' = [loc EXCEPT !.at = "done", !.h_ev = {"cancel_delivered"}]
         /\ exitCause' = "cancelled"
         /\ sleepFor' = 0
         /\ txn' = NoTxn
         /\ txnDelta' = NoRows /\ txnTime' = 0
         /\ req' = [req EXCEPT !.state = IF @ \in {"acquire_wait", "http", "backoff"}
                                          THEN "cancelled" ELSE @]
         /\ UNCHANGED <<outcomes, sleeps>>

\* Task.cancel() took effect: CancelledError is thrown at the await point.
\* Inside a transaction it first passes the async-with blocks of db.py:455-456
\* (rollback, release); a COMMIT in flight may or may not have taken effect.
PollDeliverCancel ==
    /\ Alive(Poller) /\ tcancel[Poller]
    /\ tcancel' = [tcancel EXCEPT ![Poller] = FALSE]
    /\ deliveredAt' = AwaitPoint
    /\ IF tpc[Poller] = "flush"
       THEN /\ tpc' = [tpc EXCEPT ![Poller] = "unwinding"]
            /\ loc' = [loc EXCEPT !.at = "unwinding", !.h_ev = {"cancel_delivered"}]
            /\ txn' = [txn EXCEPT !.state = "rollback", !.cause = "cancel"]
            /\ cut' = [at |-> txn.state, res |-> txn.res,
                       keys |-> txn.written \cup SeqKeys(txn.todo),
                       base |-> store[txn.res]]
            /\ \E took \in IF txn.state = "commit" THEN BOOLEAN ELSE {FALSE} :
                  IF took
                  THEN /\ store' = [store EXCEPT ![txn.res] = CommittedRows(@, txn.written)]
                       /\ rowData' = [rowData EXCEPT ![txn.res] = Commit(@, txnDelta, txnTime)]
                  ELSE /\ store' = [store EXCEPT ![txn.res] = AbortedRows(@, txn.written)]
                       /\ rowData' = [rowData EXCEPT ![txn.res] = Rollback(@, txnDelta, txnTime)]
            /\ txnDelta' = NoRows
            /\ UNCHANGED <<reqVars, sleepFor, exitCause, txnTime>>
       ELSE /\ Cancelled(CancelHandler(tpc[Poller]))
            /\ UNCHANGED <<bucket, store, cut, rowData>>
    /\ UNCHANGED <<listing, conns, poolCreated>>
    /\ SupFrame

\* the sink's async-with blocks are left; the CancelledError reaches the loop
PollUnwindDone ==
    /\ At("unwinding")
    /\ Cancelled(CancelHandler("unwinding"))
    /\ conns' = Release(conns)
    /\ UNCHANGED <<tcancel, bucket, listing, store, deliveredAt, cut, rowData, poolCreated>>
    /\ SupFrame

(***************************************************************************)
(* Spec: the polling task that a start_ingestion call has just spawned,    *)
(* the API and the database it talks to, and one caller of stop_ingestion  *)
(* (api/main.py:29).                                                       *)
(***************************************************************************)
PollArgs ==
    { [poll_interval |-> DEFAULT_POLL_INTERVAL, min_created_ts |-> "None",
       batch_size |-> n] : n \in 1..MaxBatchSize }

\* nobody calls acquire besides _request_with_retry
InitBucketIdle ==
    /\ acq = [a \in Acquirers |-> NoAcquire]
    /\ granted = 0
    /\ refilled = 0
    /\ nback = 0
    /\ tbucket = NewTimedBucket(1, 10)
    /\ waiters = [a \in Waiters |-> NoWaiter]

\* an empty database, no pool, nobody inside batch_upsert_*
NoCall == [state |-> "idle", res |-> "markets", batch |-> <<>>, todo |-> <<>>,
           result |-> 0, cause |-> "-", before |-> NoRows, stmts |-> 0,
           began |-> 0, h_last |-> NoRows, h_first |-> NoRows]

InitSinkIdle ==
    /\ rowData = [r \in Resources |-> NoRows]
    /\ txnDelta = NoRows
    /\ txnTime = 0
    /\ dbNow = 0
    /\ conns = 0
    /\ poolCreated = FALSE
    /\ changed = {}
    /\ call = NoCall

InitLoopLocals ==
    /\ loc = NoLoc
    /\ txn = NoTxn
    /\ store = [r \in Resources |-> {}]
    /\ sleepFor = 0
    /\ deliveredAt = "-"
    /\ exitCause = "-"
    /\ cut = NoCut

InitLoopIdle ==
    /\ listing \in Listings
    /\ InitLoopLocals

Init ==
    /\ INGEST_TASK = Poller
    /\ nTasks = 1
    /\ tpc = [t \in Tasks |-> IF t = Poller THEN "created" ELSE "none"]
    /\ tcancel = [t \in Tasks |-> FALSE]
    /\ \E a \in PollArgs : targs = [t \in Tasks |-> IF t = Poller THEN a ELSE NoArgs]
    /\ envMinCreatedTs = "None"
    /\ spc = [s \in Stoppers |-> "idle"]
    /\ swait = [s \in Stoppers |-> NoTask]
    /\ lastOp = [op |-> "start_spawn", task |-> Poller]
    /\ bucket = NewBucket(1)
    /\ req = IdleReq
    /\ outcomes = <<>>
    /\ sleeps = <<>>
    /\ InitLoopIdle
    /\ InitBucketIdle
    /\ InitSinkIdle

\* the state after start_ingestion spawned the task, the API serving `ls`
InitPolling(ls) ==
    /\ INGEST_TASK = Poller
    /\ nTasks = 1
    /\ tpc = [t \in Tasks |-> IF t = Poller THEN "created" ELSE "none"]
    /\ tcancel = [t \in Tasks |-> FALSE]
    /\ \E a \in PollArgs : targs = [t \in Tasks |-> IF t = Poller THEN a ELSE NoArgs]
    /\ envMinCreatedTs = "None"
    /\ spc = [s \in Stoppers |-> "idle"]
    /\ swait = [s \in Stoppers |-> NoTask]
    /\ lastOp = [op |-> "start_spawn", task |-> Poller]
    /\ bucket = NewBucket(1)
    /\ req = IdleReq
    /\ outcomes = <<>>
    /\ sleeps = <<>>
    /\ listing \in ls
    /\ InitLoopLocals
    /\ InitBucketIdle
    /\ InitSinkIdle

\* outcomes of an HTTP attempt in Spec: one of each kind
LoopOutcomes == {"200", "404", "503", "TimeoutException"}

Next ==
    \/ PollBegin
    \/ PollCreateTablesOk
    \/ PollCreateTablesFail
    \/ PollAcquireWake
    \/ \E o \in LoopOutcomes : PollHttpRespond(o)
    \/ PollBackoffDone
    \/ PollTxnStep
    \/ PollTxnFail
    \/ PollRollbackDone
    \/ PollSleepDone
    \/ PollDeliverCancel
    \/ PollUnwindDone
    \/ StopCall(1)
    \/ StopResume(1)
    \/ Tick

Spec == Init /\ [][Next]_vars

\* The event loop runs a task whose await has completed: a sleep ends after
\* its duration, a cancelled await raises, the clean-up of the sink returns.
FairSpec ==
    /\ Spec
    /\ WF_vars(PollSleepDone)
    /\ WF_vars(PollDeliverCancel)
    /\ WF_vars(PollUnwindDone)

\* Every await of the task completes: the event loop resumes the task, an
\* HTTP attempt ends with a response or an error (the client's timeout,
\* kalshi_http.py:69), a statement of the sink returns or raises, time passes.
FairIngest ==
    /\ Spec
    /\ WF_vars(PollBegin)
    /\ WF_vars(PollCreateTablesOk \/ PollCreateTablesFail)
    /\ WF_vars(PollAcquireWake)
    /\ WF_vars(\E o \in LoopOutcomes : PollHttpRespond(o))
    /\ WF_vars(PollBackoffDone)
    /\ WF_vars(PollTxnStep \/ PollTxnFail)
    /\ WF_vars(PollRollbackDone)
    /\ WF_vars(PollSleepDone)
    /\ WF_vars(PollDeliverCancel)
    /\ WF_vars(PollUnwindDone)
    /\ WF_vars(Tick)

(***************************************************************************)
(* SpecRetry: a client on which _request_with_retry is called again and    *)
(* again, with any max_retries and base_backoff.                           *)
(***************************************************************************)
RetryArgs == 0..MaxRetriesArg
BackoffArgs == 1..MaxBaseBackoff

RequestCall(max_retries, base) ==
    /\ req.state \in {"idle", "returned", "raised"}
    /\ RequestEnter(max_retries, base)
    /\ UNCHANGED <<supVars, loopVars, bktVars, sinkVars>>

InitIdleSupervisor ==
    /\ INGEST_TASK = NoTask
    /\ nTasks = 0
    /\ tpc = [t \in Tasks |-> "none"]
    /\ tcancel = [t \in Tasks |-> FALSE]
    /\ targs = [t \in Tasks |-> NoArgs]
    /\ envMinCreatedTs = "None"
    /\ spc = [s \in Stoppers |-> "idle"]
    /\ swait = [s \in Stoppers |-> NoTask]
    /\ lastOp = [op |-> "init", task |-> NoTask]

InitClient ==
    /\ \E rpm \in RateLimits : bucket = NewBucket(rpm)
    /\ req = IdleReq
    /\ outcomes = <<>>
    /\ sleeps = <<>>

InitRetry == InitIdleSupervisor /\ InitClient /\ InitLoopIdle /\ InitBucketIdle /\ InitSinkIdle

NextRetry ==
    \/ \E m \in RetryArgs, b \in BackoffArgs : RequestCall(m, b)
    \/ AcquireWake
    \/ \E o \in Outcomes : HttpRespond(o)
    \/ BackoffDone
    \/ Tick

SpecRetry == InitRetry /\ [][NextRetry]_vars

(***************************************************************************)
(* SpecBucket: one TokenBucket, built for any requests-per-minute budget,  *)
(* shared by coroutines that call acquire(n), under a wall clock that goes *)
(* forward and can be set back.                                            *)
(***************************************************************************)
\* rate_limit_per_minute values a client is constructed with (lines 61-77);
\* the constructors accept any number
BucketBudgets == {0, 1, 2}

InitBucket ==
    /\ InitIdleSupervisor
    /\ \E rpm \in BucketBudgets : bucket = NewBucket(rpm)
    /\ req = IdleReq
    /\ outcomes = <<>>
    /\ sleeps = <<>>
    /\ InitLoopIdle
    /\ InitBucketIdle
    /\ InitSinkIdle

NextBucket ==
    \/ \E a \in Acquirers, n \in 1..MaxAcquireN : AcquireCall(a, n)
    \/ \E a \in Acquirers : AcquireRetry(a)
    \/ Tick
    \/ ClockBack

SpecBucket == InitBucket /\ [][NextBucket]_vars

(***************************************************************************)
(* SpecWait: one TokenBucket of any capacity and rate, on which coroutines *)
(* call acquire(n), n <= capacity, a bounded number of times, while time   *)
(* passes.  FairWait: the clock advances and a sleep that is over returns. *)
(***************************************************************************)
InitWait ==
    /\ InitIdleSupervisor
    /\ bucket = NewBucket(1)
    /\ req = IdleReq
    /\ outcomes = <<>>
    /\ sleeps = <<>>
    /\ listing = [r \in Resources |-> <<>>]
    /\ InitLoopLocals
    /\ InitSinkIdle
    /\ acq = [a \in Acquirers |-> NoAcquire]
    /\ granted = 0
    /\ refilled = 0
    /\ nback = 0
    /\ \E c \in 1..MaxWaitCapacity, r \in WaitRates : tbucket = NewTimedBucket(c, r)
    /\ waiters = [a \in Waiters |-> NoWaiter]

NextWait ==
    \/ \E a \in Waiters, n \in 1..MaxWaitCapacity : TimedCall(a, n)
    \/ \E a \in Waiters : TimedWake(a)
    \/ TimedTick
    \/ ClockForward

SpecWait == InitWait /\ [][NextWait]_vars

FairWait ==
    /\ SpecWait
    /\ WF_vars(TimedTick)
    /\ \A a \in Waiters : WF_vars(TimedWake(a))

(***************************************************************************)
(* SpecSink: batch_upsert_markets or batch_upsert_events (db.py:349-498,   *)
(* 501-584) called again and again with any batch of raw records, against  *)
(* a database whose clock advances.  The steps of one call are its awaits: *)
(* the statement of each record, and the COMMIT.  call.before, call.began, *)
(* call.stmts are history of the call in progress (the rows and the time   *)
(* at its start, its statements so far); call.h_last and call.h_first are  *)
(* history of all calls: per key, the values of the latest payload applied *)
(* and the time of the first insertion.                                    *)
(***************************************************************************)
\* raw records: two payloads of key 1 (the second without volume); a
\* payload without title whose volume is no number; a payload without
\* identity; a title that is a number; a volume beyond 64 bits; payloads
\* with a nested value: a dict, its JSON text, a list, a text that is no JSON
RawBatches ==
    LET Raw(k, title, volume, nested) ==
            [key |-> k, title |-> title, volume |-> volume, nested |-> nested]
        r1 == Raw(1, Str("a"), Str("7"), Absent)
        r2 == Raw(1, Str("b"), Absent, Absent)
        r3 == Raw(2, Absent, Str("x"), Absent)
        r4 == Raw(0, Str("a"), Absent, Absent)
        r5 == Raw(2, IntVal("123"), Absent, Absent)
        r6 == Raw(2, Str("a"), Num("1e30"), Absent)
        r7 == Raw(2, Str("a"), Absent, [t |-> "dict", v |-> "{'a': 1}"])
        r8 == Raw(2, Str("a"), Absent, Str("{\"a\": 1}"))
        r9 == Raw(1, Str("a"), Absent, [t |-> "list", v |-> "[1, 'x']"])
        r10 == Raw(1, Str("a"), Absent, Str("oops"))
    IN  { <<>>, <<r1>>, <<r2>>, <<r1, r2>>, <<r2, r3>>, <<r4>>, <<r4, r3>>,
          <<r1, r5>>, <<r3, r6>>, <<r7>>, <<r8>>, <<r9, r7>>, <<r10>> }

\* db.py:358-359, 510-511: if not raw_markets: return 0
EarlyReturn_never(batch) == FALSE

EarlyReturn(batch) == batch = <<>>

Returned(res, batch, n, stmts) ==
    [NoCall EXCEPT !.state = "returned", !.res = res, !.batch = batch,
                   !.result = n, !.before = rowData[res], !.stmts = stmts,
                   !.began = dbNow,
                   !.h_last = call.h_last, !.h_first = call.h_first]

\* db.py:358-456: the call up to its first statement
SinkCall(batch) ==
    /\ call.state \in {"idle", "returned", "raised"}
    /\ IF EarlyReturn(batch)
       THEN /\ call' = Returned(call.res, batch, 0, 0)
            /\ UNCHANGED <<poolCreated, conns, txnDelta, txnTime>>
       ELSE /\ poolCreated' = TRUE
            /\ IF Identified(batch) = <<>>
               THEN /\ call' = Returned(call.res, batch, 0, 0)
                    /\ UNCHANGED <<conns, txnDelta, txnTime>>
               ELSE /\ call' = [call EXCEPT !.state = "txn", !.batch = batch,
                                           !.todo = Identified(batch),
                                           !.result = 0, !.cause = "-",
                                           !.before = rowData[call.res],
                                           !.stmts = 0, !.began = dbNow]
                    /\ conns' = conns + 1
                    /\ txnDelta' = NoRows
                    /\ txnTime' = dbNow
    /\ UNCHANGED <<rowData, dbNow, changed>>
    /\ UNCHANGED <<supVars, reqVars, loopVars, bktVars>>

\* the exception of a statement leaves both async-with blocks: ROLLBACK,
\* release, and the caller sees it
SinkRaise(cause) ==
    /\ call' = [call EXCEPT !.state = "raised", !.todo = <<>>, !.cause = cause]
    /\ rowData' = [rowData EXCEPT ![call.res] = Rollback(@, txnDelta, txnTime)]
    /\ txnDelta' = NoRows
    /\ txnTime' = 0
    /\ conns' = Release(conns)

\* db.py:488-496: await conn.execute(query, *values) for the next record
SinkExec ==
    /\ call.state = "txn" /\ call.todo # <<>>
    /\ LET raw == Head(call.todo)
           vals == Values(call.res, raw) IN
       IF Encodable(vals)
       THEN /\ txnDelta' = Written(txnDelta, raw.key, vals)
            /\ call' = [call EXCEPT !.todo = Tail(@), !.stmts = @ + 1]
            /\ UNCHANGED <<rowData, txnTime, conns>>
       ELSE SinkRaise("data_error")
    /\ UNCHANGED <<dbNow, poolCreated, changed>>
    /\ UNCHANGED <<supVars, reqVars, loopVars, bktVars>>

\* the server or the connection fails at a statement or at the COMMIT
SinkDbError ==
    /\ call.state = "txn"
    /\ SinkRaise("db_error")
    /\ UNCHANGED <<dbNow, poolCreated, changed>>
    /\ UNCHANGED <<supVars, reqVars, loopVars, bktVars>>

RECURSIVE LastApplied(_, _, _)
\* history: the values of the latest payload applied for each key
LastApplied(old, res, records) ==
    IF records = <<>> THEN old
    ELSE LastApplied(Written(old, Head(records).key, Values(res, Head(records))),
                     res, Tail(records))

\* db.py:456, 498: the transaction block is left: COMMIT, release, return
SinkCommit ==
    /\ call.state = "txn" /\ call.todo = <<>>
    /\ rowData' = [rowData EXCEPT ![call.res] = Commit(@, txnDelta, txnTime)]
    /\ call' = [call EXCEPT !.state = "returned",
                            !.result = Len(Identified(call.batch)),
                            !.h_last = LastApplied(@, call.res, Identified(call.batch)),
                            !.h_first = [k \in DOMAIN @ \cup DOMAIN txnDelta |->
                                            IF k \in DOMAIN @ THEN @[k] ELSE txnTime]]
    /\ txnDelta' = NoRows
    /\ txnTime' = 0
    /\ conns' = Release(conns)
    /\ UNCHANGED <<dbNow, poolCreated, changed>>
    /\ UNCHANGED <<supVars, reqVars, loopVars, bktVars>>

\* time passes on the database server
DbTick ==
    /\ dbNow < MaxDbTime
    /\ dbNow' = dbNow + 1
    /\ UNCHANGED <<rowData, txnDelta, txnTime, conns, poolCreated, changed, call>>
    /\ UNCHANGED <<supVars, reqVars, loopVars, bktVars>>

InitSink ==
    /\ InitIdleSupervisor
    /\ bucket = NewBucket(1)
    /\ req = IdleReq
    /\ outcomes = <<>>
    /\ sleeps = <<>>
    /\ listing = [r \in Resources |-> <<>>]
    /\ InitLoopLocals
    /\ InitBucketIdle
    /\ rowData = [r \in Resources |-> NoRows]
    /\ txnDelta = NoRows
    /\ txnTime = 0
    /\ dbNow = 0
    /\ conns = 0
    /\ poolCreated = FALSE
    /\ changed = {}
    /\ \E res \in Resources : call = [NoCall EXCEPT !.res = res]

NextSink ==
    \/ \E batch \in RawBatches : SinkCall(batch)
    \/ SinkExec
    \/ SinkDbError
    \/ SinkCommit
    \/ DbTick

SpecSink == InitSink /\ [][NextSink]_vars

(***************************************************************************)
(* SpecE2E: the polling task started with the default batch size against a *)
(* two-page markets listing (5 + 3 records) and a one-page events listing  *)
(* (2 records), cycle after cycle; the clock of the database advances, and *)
(* the API starts serving one market with another title.                   *)
(***************************************************************************)
FixtureListing ==
    [markets |-> << [records |-> <<1, 2, 3, 4, 5>>, cursor |-> 2],
                    [records |-> <<6, 7, 8>>, cursor |-> 0] >>,
     events  |-> << [records |-> <<1, 2>>, cursor |-> 0] >>]

\* the API serves market k with a changed title from now on
ApiChange(k) ==
    /\ changed = {}
    /\ k \in UNION {SeqKeys(listing.markets[i].records) : i \in 1..Len(listing.markets)}
    /\ changed' = {k}
    /\ UNCHANGED <<rowData, txnDelta, txnTime, dbNow, conns, poolCreated, call>>
    /\ UNCHANGED <<supVars, reqVars, loopVars, bktVars>>

InitE2E ==
    /\ INGEST_TASK = Poller
    /\ nTasks = 1
    /\ tpc = [t \in Tasks |-> IF t = Poller THEN "created" ELSE "none"]
    /\ tcancel = [t \in Tasks |-> FALSE]
    /\ targs = [t \in Tasks |->
                  IF t = Poller
                  THEN [poll_interval |-> DEFAULT_POLL_INTERVAL, min_created_ts |-> "None",
                        batch_size |-> DEFAULT_BATCH_SIZE]
                  ELSE NoArgs]
    /\ envMinCreatedTs = "None"
    /\ spc = [s \in Stoppers |-> "idle"]
    /\ swait = [s \in Stoppers |-> NoTask]
    /\ lastOp = [op |-> "start_spawn", task |-> Poller]
    /\ bucket = NewBucket(1)
    /\ req = IdleReq
    /\ outcomes = <<>>
    /\ sleeps = <<>>
    /\ listing = FixtureListing
    /\ InitLoopLocals
    /\ InitBucketIdle
    /\ InitSinkIdle

NextE2E ==
    \/ PollBegin
    \/ PollCreateTablesOk
    \/ PollAcquireWake
    \/ \E o \in LoopOutcomes : PollHttpRespond(o)
    \/ PollBackoffDone
    \/ PollTxnStep
    \/ PollTxnFail
    \/ PollRollbackDone
    \/ PollSleepDone
    \/ Tick
    \/ DbTick
    \/ \E k \in {1, 6} : ApiChange(k)

SpecE2E == InitE2E /\ [][NextE2E]_vars

(***************************************************************************)
(* SpecSupervisor                                                          *)
(***************************************************************************)
(* SpecPaging: the polling task against an API whose cursors never come to *)
(* an end: a markets listing whose second page is empty and points back to *)
(* the first, and an events listing whose second page points to itself;    *)
(* and against listings that end after empty pages.                        *)
(* The API serves at most MaxPages pages per resource and cycle.           *)
(***************************************************************************)
PagingListings ==
    { [markets |-> << [records |-> <<1>>, cursor |-> 2],
                      [records |-> <<>>, cursor |-> 1] >>,
       events  |-> << [records |-> <<1>>, cursor |-> 0] >>],
      [markets |-> << [records |-> <<>>, cursor |-> 2],
                      [records |-> <<1>>, cursor |-> 0] >>,
       events  |-> << [records |-> <<>>, cursor |-> 2],
                      [records |-> <<2>>, cursor |-> 2] >>],
      [markets |-> << [records |-> <<>>, cursor |-> 2],
                      [records |-> <<1>>, cursor |-> 0] >>,
       events  |-> << [records |-> <<>>, cursor |-> 2],
                      [records |-> <<>>, cursor |-> 3],
                      [records |-> <<2>>, cursor |-> 0] >>] }

InitPaging == InitPolling(PagingListings)

SpecPaging == InitPaging /\ [][Next]_vars

(***************************************************************************)
InitSupervisor ==
    /\ INGEST_TASK = NoTask
    /\ nTasks = 0
    /\ tpc = [t \in Tasks |-> "none"]
    /\ tcancel = [t \in Tasks |-> FALSE]
    /\ targs = [t \in Tasks |-> NoArgs]
    /\ envMinCreatedTs = "t0"
    /\ spc = [s \in Stoppers |-> "idle"]
    /\ swait = [s \in Stoppers |-> NoTask]
    /\ lastOp = [op |-> "init", task |-> NoTask]
    /\ bucket = NewBucket(1)
    /\ req = IdleReq
    /\ outcomes = <<>>
    /\ sleeps = <<>>
    /\ InitLoopIdle
    /\ InitBucketIdle
    /\ InitSinkIdle

NextSupervisor ==
    \/ \E a \in StartArgs : StartIngestion(a)
    \/ \E s \in Stoppers : StopCall(s)
    \/ \E s \in Stoppers : StopResume(s)
    \/ \E t \in Tasks : TaskBegin(t)
    \/ \E t \in Tasks : CreateTablesOk(t)
    \/ \E t \in Tasks : CreateTablesFail(t)
    \/ \E t \in Tasks : CycleOk(t)
    \/ \E t \in Tasks : CycleFail(t)
    \/ \E t \in Tasks : SleepDone(t)
    \/ \E t \in Tasks : DeliverCancel(t)
    \/ \E t \in Tasks : UnwindDone(t)

SpecSupervisor == InitSupervisor /\ [][NextSupervisor]_vars

(***************************************************************************)
(* Claims about the supervisor (checked under SpecSupervisor).             *)
(***************************************************************************)
StartOps == {"start_noop", "start_spawn"}
StopReturnOps == {"stop_immediate", "stop_resumed"}

\* C1: in every reachable state at most one polling task is alive, under any
\* interleaving of start_ingestion and stop_ingestion at their await points.
\* (Only tasks that are executing the polling loop are counted, not those
\* still waiting for their first step.)
C1_AtMostOnePoller ==
    Cardinality({t \in Tasks : tpc[t] \in {"cycle", "sleep", "fail_sleep"}}) <= 1

\* C2: a start_ingestion call made while the handle holds a task that is not
\* done creates no task and changes neither the handle nor any task's
\* arguments; a call made while the handle is empty or holds a done task
\* creates exactly one task, which the handle then names.
C2_StartIdempotent ==
    [][ lastOp'.op \in StartOps =>
          IF INGEST_TASK # NoTask /\ tpc[INGEST_TASK] # "done"
          THEN /\ lastOp'.op = "start_noop"
               /\ UNCHANGED <<INGEST_TASK, nTasks, tpc, tcancel, targs>>
          ELSE /\ lastOp'.op = "start_spawn"
               /\ nTasks' = nTasks + 1
               /\ INGEST_TASK' = nTasks'
               /\ tpc[nTasks'] = "none" /\ tpc'[nTasks'] = "created"
               /\ \A t \in Tasks \ {nTasks'} :
                     tpc'[t] = tpc[t] /\ targs'[t] = targs[t]
      ]_vars

\* C2 witness: start_ingestion was called with a poller in its cycle and did nothing
C2_Witness ==
    /\ lastOp.op = "start_noop"
    /\ INGEST_TASK # NoTask
    /\ tpc[INGEST_TASK] = "cycle"

\* C3: stop_ingestion called with a task in the handle requests its
\* cancellation, returns only once that task is done and leaves the handle
\* empty; called with an empty handle it changes nothing; a start_ingestion
\* call that follows the return spawns a new task.
C3_StopAwaitsAndClears ==
    [][ /\ lastOp'.op = "stop_suspend" =>
              /\ INGEST_TASK # NoTask
              /\ lastOp'.task = INGEST_TASK
              /\ tcancel'[INGEST_TASK]
        /\ lastOp'.op \in StopReturnOps =>
              /\ lastOp'.task # NoTask
              /\ tpc'[lastOp'.task] = "done"
              /\ INGEST_TASK' = NoTask
        /\ lastOp'.op = "stop_noop" =>
              /\ INGEST_TASK = NoTask
              /\ UNCHANGED <<INGEST_TASK, nTasks, tpc, tcancel, targs, spc, swait>>
        /\ (lastOp.op \in StopReturnOps /\ lastOp'.op \in StartOps) =>
              /\ lastOp'.op = "start_spawn"
              /\ tpc'[INGEST_TASK'] = "created"
      ]_vars

\* C3 witness: a stop_ingestion call that had to wait has returned: the task
\* it cancelled is done and the handle is empty
C3_Witness ==
    /\ lastOp.op = "stop_resumed"
    /\ tpc[lastOp.task] = "done"
    /\ INGEST_TASK = NoTask

(***************************************************************************)
(* Claims about _request_with_retry (checked under SpecRetry).             *)
(***************************************************************************)
TransientOutcomes == {"429", "502", "503", "504", "ConnectError", "TimeoutException"}

\* HTTP attempts made so far by the call
Attempts == Len(outcomes) + (IF req.state = "http" THEN 1 ELSE 0)

\* the call went on after its i-th outcome (it slept, or sent a further request)
RetriedAfter(i) == i < Len(outcomes) \/ req.state \in {"backoff", "http"}

\* C9: a retry follows only an outcome that is a status in {429, 502, 503, 504},
\* a connection error or a timeout; when an attempt ends with any other error
\* the call raises that error at once, and when that is the first attempt the
\* call has made exactly one attempt and no backoff sleep.
C9_RetryOnlyTransient ==
    /\ \A i \in 1..Len(outcomes) :
          /\ RetriedAfter(i) => outcomes[i] \in TransientOutcomes
          /\ outcomes[i] \notin TransientOutcomes \cup {"200"} =>
                /\ i = Len(outcomes)
                /\ req.state = "raised"
                /\ req.result = outcomes[i]
                /\ Len(sleeps) = i - 1
    /\ (Len(outcomes) >= 1 /\ outcomes[1] \notin TransientOutcomes \cup {"200"}) =>
          /\ Attempts = 1
          /\ sleeps = <<>>
          /\ req.state = "raised"

\* C9 witness: the first attempt got status 500 and the call raised it
C9_Witness ==
    /\ req.state = "raised"
    /\ outcomes = <<"500">>
    /\ req.max_retries = DEFAULT_MAX_RETRIES
    /\ sleeps = <<>>

\* C10: with max_retries >= 1 a call makes at most max_retries attempts; the
\* sleep before attempt a+1 lasts base_backoff * 2^a; there is one sleep
\* between two attempts and none after the last; and when every attempt
\* fails transiently the call raises the last attempt's error after exactly
\* max_retries attempts and max_retries - 1 sleeps.
C10_BoundedExponentialBackoff ==
    (req.state # "idle" /\ req.max_retries >= 1) =>
        /\ Attempts <= req.max_retries
        /\ \A i \in 1..Len(sleeps) : sleeps[i] = req.base_backoff * (2 ^ (i - 1))
        /\ Len(sleeps) <= req.max_retries - 1
        /\ req.state = "http" => Len(sleeps) = req.attempt /\ Attempts = req.attempt + 1
        /\ req.state = "backoff" => Len(sleeps) = Len(outcomes)
        /\ req.state \in {"returned", "raised"} => Len(sleeps) = Len(outcomes) - 1
        /\ (req.state = "raised" /\ req.result \in TransientOutcomes) =>
              /\ Len(outcomes) = req.max_retries
              /\ req.result = outcomes[Len(outcomes)]
              /\ Len(sleeps) = req.max_retries - 1
        /\ (Len(outcomes) = req.max_retries
              /\ \A i \in 1..Len(outcomes) : outcomes[i] \in TransientOutcomes) =>
              req.state = "raised"

\* C10 witness: three transient failures with the defaults: raised after
\* three attempts and sleeps of 1 s and 2 s
C10_Witness ==
    /\ req.state = "raised"
    /\ req.max_retries = DEFAULT_MAX_RETRIES
    /\ req.base_backoff = DEFAULT_BASE_BACKOFF
    /\ outcomes = <<"503", "ConnectError", "429">>
    /\ sleeps = <<1, 2>>

\* the first n outcomes of the call are all status 503
AllFailed503(n) == \A i \in 1..n : outcomes[i] = "503"

\* C11: for every k < max_retries, when the transport answers 503 k times and
\* then succeeds, the call returns the body of the successful response after
\* exactly k + 1 attempts; while fewer than max_retries attempts have all
\* ended with 503 the call goes on to the next attempt.
C11_SucceedsAfterKFailures ==
    \A k \in 0..(req.max_retries - 1) :
        /\ (Len(outcomes) = k + 1 /\ AllFailed503(k) /\ outcomes[k + 1] = "200") =>
              /\ req.state = "returned"
              /\ req.result = "body"
              /\ Attempts = k + 1
              /\ Len(sleeps) = k
        /\ (Len(outcomes) = k /\ AllFailed503(k)) =>
              req.state \in {"acquire_wait", "http", "backoff"}

\* C11 witness: max_retries = 3, two 503 responses, then success
C11_Witness ==
    /\ req.state = "returned"
    /\ req.result = "body"
    /\ req.max_retries = DEFAULT_MAX_RETRIES
    /\ outcomes = <<"503", "503", "200">>

\* C12: a call takes one token, in the step that ends TokenBucket.acquire and
\* before its first attempt (attempt 0, no outcome yet); no step of the call
\* after that (an attempt ending, a backoff ending) changes the bucket's
\* tokens; a call waiting in acquire has taken nothing.
C12_OneTokenPerCall ==
    /\ [](req.state = "acquire_wait" => bucket.tokens < TokenUnit)
    /\ [][ /\ req.state \in {"http", "backoff"} => bucket'.tokens = bucket.tokens
           /\ (req.state \notin {"http", "backoff"} /\ req'.state = "http") =>
                 /\ req'.attempt = 0
                 /\ outcomes' = <<>>
                 /\ Refill(bucket).tokens >= TokenUnit
                 /\ bucket'.tokens = Refill(bucket).tokens - TokenUnit
           /\ req'.state = "acquire_wait" => bucket'.tokens >= bucket.tokens
         ]_vars

\* C12 witness: a call on a fresh two-token bucket made three attempts and
\* the bucket holds one token less
C12_Witness ==
    /\ req.state = "raised"
    /\ Len(outcomes) = 3
    /\ bucket = Take(NewBucket(2), 1)

(***************************************************************************)
(* Claims about TokenBucket (checked under SpecBucket).                    *)
(***************************************************************************)
\* C13: in every reachable state of a TokenBucket, whatever the clock read
\* at the _refill and acquire calls made so far, 0 <= tokens <= capacity.
C13_TokensInRange ==
    /\ 0 <= bucket.tokens
    /\ bucket.tokens <= bucket.capacity

\* the step completes an acquire call of coroutine a
Granting(a) ==
    /\ acq'[a].pc = "returned"
    /\ acq'[a] # acq[a]

\* C14: acquire(n) returns only in a step in which the refilled bucket holds
\* at least n tokens, and that same step deducts exactly n; a step in which
\* no acquire returns deducts nothing; so, with any number of coroutines
\* interleaved at line 57, the tokens granted never exceed the initial
\* capacity plus the tokens added by refills.
C14_AtomicAcquire ==
    /\ [](granted <= bucket.capacity + refilled)
    /\ [][ /\ \A a \in Acquirers :
                 Granting(a) =>
                    /\ Refill(bucket).tokens >= acq'[a].n * TokenUnit
                    /\ bucket'.tokens = Refill(bucket).tokens - acq'[a].n * TokenUnit
                    /\ granted' = granted + acq'[a].n * TokenUnit
           /\ (\A a \in Acquirers : ~Granting(a)) =>
                    /\ granted' = granted
                    /\ bucket'.tokens \in {bucket.tokens, Refill(bucket).tokens}
         ]_vars

\* C14 witness: two coroutines obtained three tokens from a two-token bucket,
\* one of them after waiting for a refill
C14_Witness ==
    /\ bucket.capacity = 2 * TokenUnit
    /\ acq[1].pc = "returned" /\ acq[2].pc = "returned"
    /\ acq[1].n = 2 /\ acq[2].n = 1
    /\ granted = 3 * TokenUnit
    /\ refilled >= TokenUnit

\* C15: a bucket whose budget cannot serve a one-token acquire (capacity
\* below one token, or refill rate not positive) is never handed to acquire:
\* its construction fails.
C15_InvalidBudgetRejected ==
    (bucket.capacity < TokenUnit \/ bucket.rate <= 0) =>
        \A a \in Acquirers : acq[a].pc = "idle"

(***************************************************************************)
(* Claims about the polling loop (checked under Spec and FairSpec).        *)
(***************************************************************************)
\* the poller's step did e
Did(e) == e \in loc.h_ev

\* every upsertable record the cycle has fetched for resource r was committed
\* by a flush of this cycle
Drained(r) ==
    /\ loc.h_ended[r]
    /\ SeqKeys(Upsertable(loc.h_fetched[r])) \subseteq loc.h_committed[r]

\* C4: an exception raised inside a cycle by a page fetch or a sink flush is
\* caught at the loop boundary: the task goes to the sleep of line 116 for
\* poll_interval seconds and is not done; the step that follows that sleep
\* starts a new cycle with empty buffers and no cursor (or the task is
\* cancelled there); the task never ends because of such an exception.
C4_CycleFailureIsCaught ==
    /\ [](exitCause # "cycle_failure")
    /\ [][ /\ (Did("fail")' /\ loc' # loc) =>
                 /\ tpc[Poller] \in {"fetch", "flush"}
                 /\ tpc'[Poller] = "fail_sleep"
                 /\ sleepFor' = targs[Poller].poll_interval
           /\ (tpc[Poller] = "fail_sleep" /\ tpc'[Poller] # "fail_sleep") =>
                 \/ /\ tcancel[Poller]
                    /\ tpc'[Poller] = "done"
                 \/ /\ tpc'[Poller] = "fetch"
                    /\ Did("cycle_start")'
                    /\ loc'.batch = [r \in Resources |-> <<>>]
                    /\ loc'.cursor = 0
                    /\ loc'.phase = "markets"
         ]_vars

\* C4 witness: after a failed cycle and its sleep a new cycle has started
\* with empty buffers
C4_Witness ==
    /\ loc.h_prev = "failed"
    /\ Did("cycle_start")
    /\ tpc[Poller] = "fetch"
    /\ loc.batch = [r \in Resources |-> <<>>]
    /\ store.markets # {}

\* C5 (as claimed): the spawned task ends only by cancellation, whatever fails:
\* an HTTP fetch, a sink flush or create_tables at start-up.
C5_NoPermanentFailure ==
    TaskDone(Poller) => exitCause = "cancelled"

\* C5 (amended): the task ends only by cancellation or by a create_tables
\* failure at start-up; after a failure inside a cycle (HTTP fetch, sink
\* flush) it keeps running and eventually starts another cycle, unless it is
\* cancelled first.
C5_OnlyStartupFailureEnds ==
    /\ [](TaskDone(Poller) => exitCause \in {"cancelled", "startup_failure"})
    /\ [](exitCause = "startup_failure" =>
             /\ TaskDone(Poller)
             /\ store = [r \in Resources |-> {}])
    /\ (tpc[Poller] = "fail_sleep") ~>
          ((tpc[Poller] = "fetch" /\ Did("cycle_start")) \/ exitCause = "cancelled")

\* C5 witness: the cycle after a failed one ran to its end
C5_Witness ==
    /\ loc.h_prev = "failed"
    /\ tpc[Poller] = "sleep"
    /\ Drained("markets") /\ Drained("events")

\* C6: in every cycle, events are requested only when the markets pagination
\* has ended and every fetched market was committed; the sleep of line 111
\* starts only when the same holds of the events; and a cycle starts only
\* from the end of a sleep (or, the first one, from create_tables).
C6_CycleOrder ==
    /\ []((loc.phase = "events" /\ tpc[Poller] \in {"fetch", "flush"}) =>
              Drained("markets"))
    /\ []((loc.phase = "markets" /\ tpc[Poller] \in {"fetch", "flush"}) =>
              /\ loc.h_fetched.events = <<>>
              /\ loc.h_committed.events = {})
    /\ [](tpc[Poller] = "sleep" =>
              /\ Drained("markets") /\ Drained("events")
              /\ sleepFor = targs[Poller].poll_interval)
    /\ [][ (Did("cycle_start")' /\ loc' # loc) =>
              \/ tpc[Poller] \in {"sleep", "fail_sleep"} /\ sleepFor = targs[Poller].poll_interval
              \/ tpc[Poller] = "create_tables"
         ]_vars

\* C6 witness: the first events request is in flight after three markets
\* on two pages were fetched and committed
C6_Witness ==
    /\ loc.phase = "events"
    /\ tpc[Poller] = "fetch"
    /\ req.state = "http"
    /\ loc.h_fetched.markets = <<1, 2, 3>>
    /\ loc.h_committed.markets = {1, 2, 3}
    /\ loc.h_fetched.events = <<>>

\* C7 (as claimed): a transaction that was executing when the task was
\* cancelled still commits its whole batch.
C7_TxnSurvivesCancel ==
    (TaskDone(Poller) /\ cut.at \in {"exec", "commit"}) =>
        cut.keys \subseteq store[cut.res]

\* C7 (amended): cancellation interrupts the transaction in flight, and the
\* transaction stays atomic: its batch is not committed (the rows are as
\* before the call), except that a cancellation arriving while COMMIT is in
\* flight may leave the whole batch committed.
C7_CancelledTxnIsAtomic ==
    cut.at # "-" =>
        \/ store[cut.res] = cut.base
        \/ cut.at = "commit" /\ store[cut.res] = cut.base \cup cut.keys

\* C7 witness: cancelled during the second statement of a two-record batch;
\* the task is done and no row of the batch is stored
C7_Witness ==
    /\ cut.at = "exec"
    /\ cut.keys = {1, 2}
    /\ TaskDone(Poller)
    /\ store[cut.res] = {}
    /\ INGEST_TASK = NoTask

\* C8: once CancelledError has been thrown into the task, no step of the task
\* sends an HTTP request, calls a sink flush, starts a cycle or starts a
\* sleep: the task is unwinding the sink's async-with blocks or done.
C8_CancelFirst ==
    deliveredAt # "-" =>
        /\ loc.h_ev \cap {"http", "flush_call", "cycle_start", "sleep_start", "committed"} = {}
        /\ tpc[Poller] \in {"unwinding", "done"}
        /\ req.state \notin {"acquire_wait", "http", "backoff"}
        /\ txn.state \notin {"begin", "exec", "commit"}

\* C8 witness: cancelled during a retry backoff; the task is done and
\* stop_ingestion has returned
C8_Witness ==
    /\ deliveredAt = "backoff"
    /\ TaskDone(Poller)
    /\ lastOp.op = "stop_resumed"

(***************************************************************************)
(* Claims about pagination and batching (checked under Spec).              *)
(***************************************************************************)
RECURSIVE Flatten(_)
Flatten(qs) == IF qs = <<>> THEN <<>> ELSE Head(qs) \o Flatten(Tail(qs))

\* the records of the pages that the calls of this cycle returned for r
ServedRecords(r) ==
    Flatten([i \in 1..loc.h_served[r] |-> Page(r, loc.h_sent[r][i]).records])

\* C16: the first request of a pagination run carries no cursor; every later
\* request carries the cursor of the page before it; the run ends with the
\* first page whose cursor is null, and no request follows it; the records
\* accumulated (flushed or buffered) are those of the pages served, in order.
C16_Pagination ==
    \A r \in Resources :
        LET sent == loc.h_sent[r]
            n == loc.h_served[r]
        IN  /\ sent # <<>> => sent[1] = 0
            /\ \A i \in 2..Len(sent) :
                  sent[i] # 0 /\ sent[i] = Page(r, sent[i - 1]).cursor
            /\ Len(sent) - n \in {0, 1}
            /\ loc.h_ended[r] <=> (n >= 1 /\ Page(r, sent[n]).cursor = 0)
            /\ loc.h_ended[r] => Len(sent) = n
            /\ loc.h_fetched[r] = ServedRecords(r)
            /\ (loc.phase = r /\ tpc[Poller] = "fetch") =>
                  Flatten(loc.h_flushes[r]) \o loc.batch[r] = ServedRecords(r)

\* C16 witness: pages [[1,2], cursor 2], [[3], null]: two requests, the second
\* with cursor 2, records 1,2,3, and the run has ended
C16_Witness ==
    /\ loc.h_sent.markets = <<0, 2>>
    /\ loc.h_served.markets = 2
    /\ loc.h_fetched.markets = <<1, 2, 3>>
    /\ loc.h_ended.markets
    /\ loc.phase = "events"

\* C17: in every cycle, also the one after a cycle that failed in the middle
\* of a pagination, the step that starts the cycle sends get_markets without
\* cursor, and the first get_events of the cycle is sent without cursor.
C17_NoCursorCarried ==
    /\ Did("cycle_start") =>
          /\ loc.cursor = 0
          /\ loc.h_sent = [r \in Resources |-> IF r = "markets" THEN <<0>> ELSE <<>>]
    /\ (Len(loc.h_sent.events) = 1 /\ loc.phase = "events" /\ tpc[Poller] = "fetch") =>
          /\ loc.cursor = 0
          /\ loc.h_sent.events = <<0>>

\* C17 witness: the previous cycle failed while its cursor was 2, and the new
\* cycle's first request carries none
C17_Witness ==
    /\ loc.h_prev = "failed"
    /\ loc.h_prevCursor = 2
    /\ Did("cycle_start")
    /\ loc.h_sent.markets = <<0>>
    /\ tpc[Poller] = "fetch"

\* C18: every batch the loop hands to batch_upsert_markets /
\* batch_upsert_events holds at most batch_size records.
C18_FlushBounded ==
    \A r \in Resources : \A i \in 1..Len(loc.h_flushes[r]) :
        Len(loc.h_flushes[r][i]) <= BatchSize

\* the pagination of r and its final drain are over
ResourceDone(r) ==
    IF r = "markets" THEN loc.phase = "events" ELSE tpc[Poller] = "sleep"

\* C19: when the API returns batch_size + 1 records of a resource, the loop
\* makes one automatic flush of the first batch_size records and the final
\* drain flushes the one record left.
C19_OneAutoFlushThenDrain ==
    \A r \in Resources :
        (ResourceDone(r) /\ Len(loc.h_fetched[r]) = BatchSize + 1) =>
            loc.h_flushes[r] = << SubSeq(loc.h_fetched[r], 1, BatchSize),
                                  << loc.h_fetched[r][BatchSize + 1] >> >>

MaxPageLen(r) ==
    CHOOSE n \in 0..8 :
        /\ \E i \in 1..Len(listing[r]) : Len(listing[r][i].records) = n
        /\ \A i \in 1..Len(listing[r]) : Len(listing[r][i].records) <= n

\* C30: while a page request is out no flush is in progress and the buffer
\* of the resource being paginated holds fewer than batch_size records; a
\* buffer never holds more than batch_size - 1 records plus one page.
C30_BufferBounded ==
    /\ tpc[Poller] = "fetch" =>
          /\ txn.state = "none"
          /\ Len(loc.batch[loc.phase]) < BatchSize
    /\ tpc[Poller] = "flush" => req.state \notin {"acquire_wait", "http", "backoff"}
    /\ \A r \in Resources : Len(loc.batch[r]) <= BatchSize - 1 + MaxPageLen(r)

\* C30 witness: the second markets page is requested with two records in the
\* buffer (batch_size 3)
C30_Witness ==
    /\ tpc[Poller] = "fetch"
    /\ req.state = "http"
    /\ loc.phase = "markets"
    /\ loc.batch.markets = <<1, 2>>
    /\ loc.h_sent.markets = <<0, 2>>

(***************************************************************************)
(* C24: a batch_upsert_* call holds at most one pooled connection, and     *)
(* holds it only while the call is in progress: once the call has returned *)
(* or raised, also by cancellation, the sink holds no connection.          *)
(***************************************************************************)
InSinkCall == tpc[Poller] \in {"flush", "unwinding"}

C24_ConnectionScoped ==
    /\ conns \in {0, 1}
    /\ conns = 1 <=> InSinkCall

\* a cancellation interrupted a statement of the batch, and the task ended
C24_Witness ==
    /\ tpc[Poller] = "done"
    /\ exitCause = "cancelled"
    /\ cut.at = "exec"
    /\ conns = 0

(***************************************************************************)
(* Claims about the sink, checked under SpecSink.                          *)
(***************************************************************************)
\* the records of a batch that carry their identity field
WithKey(batch) == SelectSeq(batch, LAMBDA raw : raw.key # 0)

BatchKeys(batch) == {batch[i].key : i \in 1..Len(batch)} \ {0}

\* the record of the batch that is applied last for its key
LastForKey(batch, i) ==
    /\ batch[i].key # 0
    /\ \A j \in (i + 1)..Len(batch) : batch[j].key # batch[i].key

CallRows == rowData[call.res]

(***************************************************************************)
(* C21: between calls the store holds one row for each key upserted by a   *)
(* call that returned, and nothing else; the row's columns are the         *)
(* projection of the latest payload applied for the key, null where that   *)
(* payload lacks the field; a call whose keys are all stored already       *)
(* leaves the number of rows unchanged.                                    *)
(***************************************************************************)
C21_LastPayloadWins ==
    /\ call.state # "txn" =>
          /\ DOMAIN CallRows = DOMAIN call.h_last
          /\ \A k \in DOMAIN CallRows :
                /\ CallRows[k].title = call.h_last[k].title
                /\ CallRows[k].volume = call.h_last[k].volume
    /\ call.state = "returned" =>
          /\ \A i \in 1..Len(call.batch) :
                LastForKey(call.batch, i) =>
                   /\ call.batch[i].title = Absent => CallRows[call.batch[i].key].title = None
                   /\ call.batch[i].volume = Absent => CallRows[call.batch[i].key].volume = None
          /\ BatchKeys(call.batch) \subseteq DOMAIN call.before =>
                Cardinality(DOMAIN CallRows) = Cardinality(DOMAIN call.before)

\* key 1 was stored with a volume; a payload without volume was upserted
C21_Witness ==
    /\ call.state = "returned"
    /\ Len(call.batch) = 1
    /\ call.batch[1].key = 1
    /\ call.batch[1].volume = Absent
    /\ 1 \in DOMAIN call.before
    /\ call.before[1].volume = IntVal("7")
    /\ call.before[1].title = Str("a")
    /\ CallRows[1].volume = None
    /\ CallRows[1].title = Str("b")
    /\ DOMAIN CallRows = DOMAIN call.before

(***************************************************************************)
(* C22: a call that returned has set updated_at of every row it upserted   *)
(* to the time of its transaction; created_at of every row is, at all      *)
(* times, the time at which the key was first inserted.                    *)
(***************************************************************************)
C22_CreatedAtKept ==
    /\ call.state # "txn" =>
          \A k \in DOMAIN CallRows :
             /\ CallRows[k].created_at = call.h_first[k]
             /\ CallRows[k].created_at <= CallRows[k].updated_at
    /\ call.state = "returned" =>
          \A k \in BatchKeys(call.batch) :
             /\ CallRows[k].updated_at = call.began
             /\ k \in DOMAIN call.before =>
                   CallRows[k].created_at = call.before[k].created_at

\* a row inserted at time 0 was upserted again at time 2
C22_Witness ==
    /\ call.state = "returned"
    /\ 1 \in BatchKeys(call.batch)
    /\ 1 \in DOMAIN call.before
    /\ call.before[1].updated_at = 0
    /\ CallRows[1].created_at = 0
    /\ CallRows[1].updated_at = 2

(***************************************************************************)
(* C23: while a call is in its transaction, and after it raised, the store *)
(* is as it was before the call; after it returned, the store holds the    *)
(* row of every record of the batch that has an identity.                  *)
(***************************************************************************)
C23_BatchIsOneTransaction ==
    /\ call.state \in {"txn", "raised"} => CallRows = call.before
    /\ call.state = "returned" =>
          /\ BatchKeys(call.batch) \subseteq DOMAIN CallRows
          /\ \A k \in BatchKeys(call.batch) :
                LET vals == LastApplied(NoRows, call.res, WithKey(call.batch))[k] IN
                /\ CallRows[k].title = vals.title
                /\ CallRows[k].volume = vals.volume
          /\ \A k \in DOMAIN CallRows \ BatchKeys(call.batch) :
                k \in DOMAIN call.before /\ CallRows[k] = call.before[k]

\* the second statement of a batch failed after the first had overwritten a
\* stored row
C23_Witness ==
    /\ call.state = "raised"
    /\ call.cause = "data_error"
    /\ call.stmts = 1
    /\ Len(call.batch) = 2
    /\ call.batch[1].key = 1
    /\ 1 \in DOMAIN call.before
    /\ call.before[1].title = Str("b")
    /\ call.before[1].updated_at < call.began
    /\ CallRows = call.before

(***************************************************************************)
(* C25: a call with an empty batch returns 0 at once: the step creates no  *)
(* pool, acquires no connection, begins no transaction, executes no        *)
(* statement and leaves the rows as they are.                              *)
(***************************************************************************)
C25_EmptyBatchTouchesNothing ==
    [][(call.state # "txn" /\ call' # call /\ call'.batch = <<>>) =>
          /\ call'.state = "returned"
          /\ call'.result = 0
          /\ call'.stmts = 0
          /\ UNCHANGED <<poolCreated, conns, txnDelta, txnTime, rowData>>]_vars

\* the first call ever made had an empty batch
C25_Witness ==
    /\ call.state = "returned"
    /\ call.batch = <<>>
    /\ call.result = 0
    /\ ~poolCreated
    /\ conns = 0

(***************************************************************************)
(* C26: no row is ever stored for a record without identity; such a record *)
(* does not make the call raise; a call that returned has executed one     *)
(* statement for each record that has an identity, stored them all and     *)
(* returned their number; a batch whose records all lack the identity      *)
(* returns 0 without a transaction.                                        *)
(***************************************************************************)
C26_MissingIdentityDropped ==
    /\ \A r \in Resources : 0 \notin DOMAIN rowData[r]
    /\ 0 \notin DOMAIN txnDelta
    /\ call.state = "returned" =>
          /\ call.result = Len(WithKey(call.batch))
          /\ call.stmts = Len(WithKey(call.batch))
          /\ BatchKeys(call.batch) \subseteq DOMAIN CallRows
    /\ call.state = "raised" /\ call.cause = "data_error" =>
          \E i \in 1..Len(call.batch) :
             /\ call.batch[i].key # 0
             /\ ~Encodable(Values(call.res, call.batch[i]))
    /\ WithKey(call.batch) = <<>> =>
          /\ call.state \in {"idle", "returned"}
          /\ call.result = 0
          /\ call.stmts = 0
          /\ conns = 0
          /\ txnDelta = NoRows
          /\ CallRows = call.before

\* a batch of a record without identity and a record with identity returned
C26_Witness ==
    /\ call.state = "returned"
    /\ Len(call.batch) = 2
    /\ call.batch[1].key = 0
    /\ call.batch[2].key = 2
    /\ call.result = 1
    /\ 2 \in DOMAIN CallRows
    /\ 2 \notin DOMAIN call.before

(***************************************************************************)
(* C27: no value of a field other than the identity makes a call raise:    *)
(* a call raises only when the database fails.                             *)
(***************************************************************************)
C27_MalformedNeverAborts ==
    call.state = "raised" => call.cause = "db_error"

(***************************************************************************)
(* Claims about the whole pipeline, checked under SpecE2E.                 *)
(***************************************************************************)
\* a cycle has completed: the task sleeps at line 111
CycleComplete == tpc[Poller] = "sleep"

\* row k of resource r existed when the current cycle began
Reingested(r, k) == k \in DOMAIN loc.h_rows[r]

(***************************************************************************)
(* C28 as stated: after a complete cycle over the fixture there are 8      *)
(* market rows and 2 event rows, and a row that existed when the cycle     *)
(* began, and whose title the cycle fetched as it was stored, is the same  *)
(* in every column, updated_at included.                                   *)
(***************************************************************************)
C28_OnlyChangedRowTouched ==
    CycleComplete =>
       /\ DOMAIN rowData.markets = 1..8
       /\ DOMAIN rowData.events = 1..2
       /\ \A r \in Resources : \A k \in DOMAIN rowData[r] :
             (Reingested(r, k) /\ loc.payload[r][k].title = loc.h_rows[r][k].title)
                => rowData[r][k] = loc.h_rows[r][k]

(***************************************************************************)
(* C28, amended: after a complete cycle over the fixture there are 8       *)
(* market rows and 2 event rows; a row that existed when the cycle began   *)
(* has its created_at and every column the payload did not change as       *)
(* before, its title as fetched in this cycle, which differs from the      *)
(* stored one only for the market the API changed, and an updated_at set   *)
(* during this cycle.                                                      *)
(***************************************************************************)
C28_SecondCycleRefreshesAll ==
    CycleComplete =>
       /\ DOMAIN rowData.markets = 1..8
       /\ DOMAIN rowData.events = 1..2
       /\ \A r \in Resources : \A k \in DOMAIN rowData[r] :
             /\ rowData[r][k].title = loc.payload[r][k].title
             /\ Reingested(r, k) =>
                   /\ rowData[r][k].created_at = loc.h_rows[r][k].created_at
                   /\ rowData[r][k].volume = loc.h_rows[r][k].volume
                   /\ rowData[r][k].title # loc.h_rows[r][k].title =>
                         r = "markets" /\ k \in changed
                   /\ rowData[r][k].updated_at >= loc.h_time
                   /\ rowData[r][k].updated_at >= loc.h_rows[r][k].updated_at

\* the second cycle has changed the title of market 6 and has refreshed
\* updated_at of market 1 and of event 1, whose payloads are as before
C28_Witness ==
    /\ CycleComplete
    /\ loc.h_prev = "ok"
    /\ changed = {6}
    /\ DOMAIN loc.h_rows.markets = 1..8
    /\ loc.h_rows.markets[6].title = Str("a")
    /\ rowData.markets[6].title = Str("b")
    /\ rowData.markets[1].title = Str("a")
    /\ rowData.markets[1].created_at = 0
    /\ loc.h_rows.markets[1].updated_at = 0
    /\ rowData.markets[1].updated_at = 1
    /\ rowData.events[1].updated_at = 1

(***************************************************************************)
(* C29: an acquire(n) call with n <= capacity on a bucket with a positive  *)
(* refill rate returns, given that time passes; a pass that finds too few  *)
(* tokens sleeps for min(time in which the missing tokens accrue, 0.1 s),  *)
(* which is more than nothing, and a sleep lasts at most 0.1 s beyond the  *)
(* moment from which the bucket has the tokens.                            *)
(***************************************************************************)
SleepsAsClaimed ==
    \A a \in Waiters :
       /\ waiters[a].pc = "sleeping" =>
             /\ waiters[a].h_need >= 1
             /\ waiters[a].h_slept = Min(waiters[a].h_need, SleepCapTicks(tbucket.rate))
             /\ waiters[a].h_slept >= 1
             /\ waiters[a].sleep <= waiters[a].h_slept
       /\ waiters[a].h_late <= SleepCapTicks(tbucket.rate)

C29_AcquireReturns ==
    /\ []SleepsAsClaimed
    /\ \A a \in Waiters : (waiters[a].pc = "sleeping") ~> (waiters[a].pc = "returned")

\* at 5 tokens per second a call for one token found none, slept 0.1 s of
\* the 0.2 s needed, slept 0.1 s again while the wall clock's jump brought
\* the token early, and returned at its third pass
C29_Witness ==
    \E a \in Waiters :
       /\ waiters[a].pc = "returned"
       /\ waiters[a].h_passes = 3
       /\ waiters[a].h_late = 1
       /\ tbucket.rate = 5

(***************************************************************************)
(* C31: _serialize_jsonb returns None for None, a string as it is and the  *)
(* JSON text of any other value, so that serializing its result again      *)
(* changes nothing; the nested value a returned call has stored is the     *)
(* payload's value serialized once.                                        *)
(***************************************************************************)
C31_SerializedOnce ==
    \A i \in 1..Len(call.batch) :
       LET x == Get(call.batch[i], "nested") IN
       /\ SerializeJsonb(None) = None
       /\ x.t = "str" => SerializeJsonb(x) = x
       /\ x.t \notin {"none", "str"} => SerializeJsonb(x) = Str(JsonDumps(x))
       /\ SerializeJsonb(SerializeJsonb(x)) = SerializeJsonb(x)
       /\ (call.state = "returned" /\ LastForKey(call.batch, i)) =>
             CallRows[call.batch[i].key].nested =
                (IF x = None THEN None
                 ELSE IF x.t = "str" THEN x
                 ELSE Str(JsonDumps(x)))

\* a dict was stored as its JSON text, and the call that then upserted that
\* text left the column as it was
C31_Witness ==
    /\ call.state = "returned"
    /\ Len(call.batch) = 1
    /\ call.batch[1].nested = Str("{\"a\": 1}")
    /\ 2 \in DOMAIN call.before
    /\ call.h_first[2] < call.began
    /\ call.before[2].nested = Str(JsonDumps([t |-> "dict", v |-> "{'a': 1}"]))
    /\ CallRows[2].nested = call.before[2].nested

(***************************************************************************)
(* C37: a call executes the records that have an identity in list order,   *)
(* one statement each, and returns their number, repeated keys counted     *)
(* each time; the stored row of a key is that of its last occurrence in    *)
(* the batch, so a batch that repeats a key returns more than the number   *)
(* of rows it wrote.                                                       *)
(***************************************************************************)
C37_CountsOccurrencesLastWins ==
    /\ call.state = "txn" =>
          /\ call.todo = SubSeq(WithKey(call.batch), call.stmts + 1,
                                Len(WithKey(call.batch)))
          /\ txnDelta = LastApplied(NoRows, call.res,
                                    SubSeq(WithKey(call.batch), 1, call.stmts))
    /\ call.state = "returned" =>
          /\ call.result = Cardinality({i \in 1..Len(call.batch) : call.batch[i].key # 0})
          /\ \A i \in 1..Len(call.batch) :
                LastForKey(call.batch, i) =>
                   LET row == CallRows[call.batch[i].key]
                       vals == Values(call.res, call.batch[i]) IN
                   /\ row.title = vals.title
                   /\ row.volume = vals.volume
                   /\ row.nested = vals.nested
          /\ (\E i, j \in 1..Len(call.batch) :
                 i < j /\ call.batch[i].key # 0 /\ call.batch[i].key = call.batch[j].key)
                => call.result > Cardinality(BatchKeys(call.batch))

\* a batch with two payloads of key 1 returned 2 and wrote one row, the second
C37_Witness ==
    /\ call.state = "returned"
    /\ Len(call.batch) = 2
    /\ call.batch[1].key = 1 /\ call.batch[2].key = 1
    /\ call.batch[1].title = Str("a") /\ call.batch[2].title = Str("b")
    /\ call.result = 2
    /\ DOMAIN CallRows = {1}
    /\ CallRows[1].title = Str("b")

(***************************************************************************)
(* C38: a _request_with_retry call that returns, returns the parsed body   *)
(* of a response, whatever max_retries is.                                 *)
(***************************************************************************)
C38_ReturnsBodyOrRaises ==
    req.state = "returned" => req.result = "body"

(***************************************************************************)
(* C39: when the polling task has terminated, by cancellation or by a      *)
(* start-up failure, the KalshiHttpClient it created is closed.            *)
(***************************************************************************)
C39_ClientClosedOnExit ==
    TaskDone(Poller) => loc.client # "open"

(***************************************************************************)
(* C33: when a page fetch or a flush fails in a cycle, the rows of the     *)
(* batches that the cycle flushed before the failure are stored (nothing   *)
(* undoes them), and nothing else was written: the table holds the rows it *)
(* held when the cycle began plus those flushed batches, so the records    *)
(* still in the buffer at the failure were not written by this cycle.      *)
(***************************************************************************)
\* the keys of the records buffered and not flushed when the cycle failed
Unflushed(r) == SeqKeys(Upsertable(loc.batch[r]))

C33_NoCycleRollback ==
    tpc[Poller] = "fail_sleep" =>
       \A r \in Resources :
          /\ loc.h_committed[r] \subseteq DOMAIN rowData[r]
          /\ DOMAIN rowData[r] = DOMAIN loc.h_rows[r] \cup loc.h_committed[r]
          /\ store[r] = DOMAIN rowData[r]
          /\ \A k \in DOMAIN loc.h_rows[r] \ loc.h_committed[r] :
                rowData[r][k] = loc.h_rows[r][k]
          /\ \A k \in Unflushed(r) \ (DOMAIN loc.h_rows[r] \cup loc.h_committed[r]) :
                k \notin DOMAIN rowData[r]

\* C33 witness: the first cycle flushed markets 1 and 2, then the flush of
\* market 3 failed: rows 1 and 2 are stored, row 3 is not
C33_Witness ==
    /\ tpc[Poller] = "fail_sleep"
    /\ loc.h_prev = "-"
    /\ loc.h_committed["markets"] = {1, 2}
    /\ DOMAIN rowData["markets"] = {1, 2}
    /\ Unflushed("markets") = {3}
    /\ txn.state = "none"

(***************************************************************************)
(* C34: a cycle sends an events request, buffers or flushes events only    *)
(* after its markets pagination ended with a null cursor and every markets *)
(* record it fetched was flushed and committed; a cycle that fails in the  *)
(* markets phase sends no events request and leaves the events table as it *)
(* was; an events row is written only by a cycle whose markets phase       *)
(* completed.                                                              *)
(***************************************************************************)
\* the cycle has started to work on events
EventsTouched ==
    \/ loc.phase = "events"
    \/ loc.h_sent["events"] # <<>>
    \/ loc.h_fetched["events"] # <<>>
    \/ loc.h_flushes["events"] # <<>>
    \/ loc.h_committed["events"] # {}

\* the cycle's markets phase completed without exception
MarketsCompleted ==
    /\ Drained("markets")
    /\ Flatten(loc.h_flushes["markets"]) = loc.h_fetched["markets"]

C34_EventsAfterMarkets ==
    /\ [](EventsTouched => MarketsCompleted)
    /\ []((tpc[Poller] = "fail_sleep" /\ loc.phase = "markets") =>
             /\ ~EventsTouched
             /\ rowData["events"] = loc.h_rows["events"])
    /\ [][rowData'["events"] # rowData["events"] =>
             /\ loc.phase = "events"
             /\ MarketsCompleted]_vars

\* C34 witness: the second cycle in a row failed in its markets phase, after
\* a flush of that cycle had committed: no events request, no events row
C34_Witness ==
    /\ tpc[Poller] = "fail_sleep"
    /\ loc.h_prev = "failed"
    /\ loc.phase = "markets"
    /\ loc.h_committed["markets"] # {}
    /\ loc.h_sent["events"] = <<>>
    /\ rowData["events"] = NoRows

(***************************************************************************)
(* C36: no step of an upsert call deletes a stored row: the set of keys of *)
(* each table only grows, and the row of a key that the call's batch does  *)
(* not contain (a record the API no longer lists) stays as it was.         *)
(***************************************************************************)
C36_RowsOnlyAdded ==
    [][\A r \in Resources :
          /\ DOMAIN rowData[r] \subseteq DOMAIN rowData'[r]
          /\ \A k \in DOMAIN rowData[r] :
                (r # call.res \/ k \notin BatchKeys(call.batch)) =>
                   rowData'[r][k] = rowData[r][k]
      ]_vars

\* C36 witness: a later call whose batch holds only key 2 has committed; the
\* row of key 1, stored by an earlier call, is still there as it was
C36_Witness ==
    /\ call.state = "returned"
    /\ call.result = 1
    /\ BatchKeys(call.batch) = {2}
    /\ DOMAIN CallRows = {1, 2}
    /\ CallRows[1] = call.before[1]
    /\ CallRows[1].updated_at < call.began
    /\ CallRows[2].updated_at = call.began

(***************************************************************************)
(* C35: the pagination of a resource ends exactly when a page with a null  *)
(* cursor has been served.  After a page with a non-null cursor, empty or  *)
(* not, with a cursor seen before or not, the cycle is still in that       *)
(* resource's pagination (the next request carries that cursor) unless an  *)
(* exception or a cancellation took it out; the cycle works on events only *)
(* after the markets pagination ended, and sleeps after a success only     *)
(* after both ended; against a listing without a null cursor the cycle     *)
(* never leaves the pagination normally.                                   *)
(***************************************************************************)
\* no page of resource r carries a null cursor
Endless(r) == \A i \in 1..Len(listing[r]) : listing[r][i].cursor # 0

C35_EndsOnlyOnNullCursor ==
    \A r \in Resources :
        LET sent == loc.h_sent[r]
            n == loc.h_served[r]
        IN  /\ loc.h_ended[r] <=> (n >= 1 /\ Page(r, sent[n]).cursor = 0)
            /\ (n >= 1 /\ Page(r, sent[n]).cursor # 0) =>
                  /\ loc.phase = r
                  /\ tpc[Poller] \in {"fetch", "flush", "unwinding", "fail_sleep", "done"}
                  /\ tpc[Poller] = "fetch" =>
                        /\ Len(sent) = n + 1
                        /\ sent[n + 1] = Page(r, sent[n]).cursor
                  /\ tpc[Poller] = "done" => exitCause = "cancelled"
                  /\ tpc[Poller] = "fail_sleep" => Did("fail")
            /\ (r = "markets" /\ loc.phase = "events") => loc.h_ended[r]
            /\ tpc[Poller] = "sleep" => loc.h_ended[r]
            /\ Endless(r) =>
                  /\ ~loc.h_ended[r]
                  /\ tpc[Poller] # "sleep"
                  /\ loc.h_sent[r] # <<>> => loc.phase = r

\* C35 witness: the markets listing points from its empty second page back
\* to the first: the fourth page has been served, the cursor 2 was sent
\* twice, and the fifth request is out
C35_Witness ==
    /\ Endless("markets")
    /\ Page("markets", 2).records = <<>>
    /\ loc.h_served["markets"] >= 4
    /\ loc.h_sent["markets"][2] = 2
    /\ loc.h_sent["markets"][4] = 2
    /\ Len(loc.h_sent["markets"]) = loc.h_served["markets"] + 1
    /\ tpc[Poller] = "fetch"
    /\ ~loc.h_ended["markets"]

(***************************************************************************)
(* C32: if from some point on no request and no flush fails and the task   *)
(* is neither cancelled nor ended, then eventually every key that the API  *)
(* lists is stored and stays stored; and at all times each table holds one *)
(* row per key and only keys that the API lists, whatever failed before.   *)
(***************************************************************************)
\* the keys of the records that the API lists for resource r
ListedKeys(r) ==
    SeqKeys(Upsertable(Flatten([i \in 1..Len(listing[r]) |-> listing[r][i].records])))

\* no failure is being handled, no cancellation was requested
Healthy ==
    /\ ~tcancel[Poller]
    /\ tpc[Poller] \notin {"fail_sleep", "unwinding", "done"}
    /\ txn.state # "rollback"

AllListedStored ==
    \A r \in Resources : ListedKeys(r) \subseteq DOMAIN rowData[r]

C32_EventuallyAllStored ==
    /\ (<>[]Healthy) => <>[]AllListedStored
    /\ [](\A r \in Resources :
             /\ DOMAIN rowData[r] \subseteq ListedKeys(r)
             /\ store[r] = DOMAIN rowData[r]
             /\ Cardinality(store[r]) <= Cardinality(ListedKeys(r)))

\* C32 witness: a cycle failed after it had committed a part of the markets;
\* the next cycle ran to its end and every listed key is stored
C32_Witness ==
    /\ loc.h_prev = "failed"
    /\ tpc[Poller] = "sleep"
    /\ loc.h_rows["markets"] # NoRows
    /\ DOMAIN loc.h_rows["markets"] # ListedKeys("markets")
    /\ loc.h_rows["events"] = NoRows
    /\ AllListedStored
    /\ ListedKeys("markets") = {1, 2, 3}

====
